---- MODULE Spec2Model ----
(***************************************************************************)
(* A model of the JVM back end of rusp (src/src/jvm and                    *)
(* src/src/constant_pool.rs): the deduplicating constant pool, the slot    *)
(* allocator, the label generator, the lowering of pseudo-instructions,    *)
(* the two-pass instruction encoder and the class-file writer.             *)
(*                                                                         *)
(* Each component has its own specification over the shared variables:     *)
(*   Spec      the ConstantPool API (add_utf8/add_string/add_class/        *)
(*             add_method) and ConstantPool::write_to_file                 *)
(*   SpecSlots the VariableStack API (create/get/drop)                     *)
(*   SpecEnc   compile_instructions on one instruction list, once and a    *)
(*             second time                                                 *)
(*   SpecLower compile_to_jvm_instructions on one pseudo-instruction list  *)
(*   SpecPipe  to_bytecode on one program, with an output file whose       *)
(*             creation and writes may fail, and write_to_file called      *)
(*             again on the ClassFile it wrote                             *)
(* The counters of the program (ConstantPool::next_index: u16,             *)
(* VariableStack::next_index: u8) are explored up to the bounds named      *)
(* below, which lie far under the range of their types.  The encoder is    *)
(* also given inputs whose branch distances pass the signed 16-bit range.  *)
(***************************************************************************)
EXTENDS Integers, Sequences, FiniteSets, TLC

VARIABLES
    pool,        \* ConstantPool.pool: HashMap<ConstantPoolItem, u16>
    next_index,  \* ConstantPool.next_index
    order,       \* history: the entries in the order get_or_insert inserted them
    log,         \* history: the add calls made so far, <<descriptor, returned index>>
    wr,          \* ConstantPool::write_to_file in progress: its table, iterator and sink
    slots,       \* a VariableStack: indices and next_index
    slog,        \* history: the create/drop/get calls made on slots, with what they returned
    low,         \* compile_to_jvm_instructions in progress
    enc,         \* compile_instructions: its input, the label map and the bytes
    pipe         \* to_bytecode in progress

poolVars == <<pool, next_index, order, log>>
vars == <<pool, next_index, order, log, wr, slots, slog, low, enc, pipe>>

\* What the operations of one component leave alone.
notPool == <<slots, slog, low, enc, pipe>>
notSlots == <<pool, next_index, order, log, wr, low, enc, pipe>>
notEnc == <<log, wr, slots, slog, low, pipe>>
notLow == <<log, wr, slots, slog, enc, pipe>>
notPipe == <<log, wr, slots, slog, low, enc>>

(***************************************************************************)
(* Bounds of the model.                                                    *)
(***************************************************************************)
MaxCalls == 3          \* add calls made on one pool
MaxWriteCalls == 2     \* add calls made on a pool before it is written
MaxSlotOps == 4        \* create/get/drop calls made on one VariableStack
MaxCodeLen == 3        \* instructions of a short input of the encoder
LongCodeLen == 10923   \* branches of a long input of the encoder
MaxStmts == 3          \* statements of a program given to lowering
LongBodyLen == 4096    \* statements of the long block of a long program
MaxWrites == 2         \* calls of write_to_file on one ClassFile

\* The texts the add calls are given.
Texts == {"a", "b"}

\* The variable names and the types of the values stored in them.
Names == {"x", "y"}
StoredTypes == {"Int", "Reference"}

(***************************************************************************)
(* ConstantPoolItem (src/src/constant_pool.rs:26-33).  One record shape    *)
(* for the five variants: text is the Utf8 payload, a and b the u16        *)
(* indices a composite entry stores.                                       *)
(***************************************************************************)
Utf8Item(s) == [tag |-> "Utf8", text |-> s, a |-> 0, b |-> 0]
StringItem(i) == [tag |-> "String", text |-> "", a |-> i, b |-> 0]
ClassRefItem(i) == [tag |-> "ClassRef", text |-> "", a |-> i, b |-> 0]
NameAndTypeItem(n, d) == [tag |-> "NameAndType", text |-> "", a |-> n, b |-> d]
MethodRefItem(c, nt) == [tag |-> "MethodRef", text |-> "", a |-> c, b |-> nt]

\* ConstantPool::new: the first index issued.
FirstIndex == 1

\* ConstantPool::new as a value threaded through the add operations:
\* the pool, the counter, the insertion history and the last index returned.
NewPool == [pool |-> <<>>, next_index |-> FirstIndex, order |-> <<>>, ret |-> 0]

\* ConstantPool::len
PoolLen(cp) == Cardinality(DOMAIN cp.pool)

\* A get_or_insert that never looks the item up.
GetOrInsertAlways(cp, item) ==
    [pool |-> [it \in (DOMAIN cp.pool) \cup {item} |->
                  IF it = item THEN cp.next_index ELSE cp.pool[it]],
     next_index |-> cp.next_index + 1,
     order |-> Append(cp.order, item),
     ret |-> cp.next_index]

\* A get_or_insert that forgets to advance the counter.
GetOrInsertNoAdvance(cp, item) ==
    IF item \in DOMAIN cp.pool
    THEN [cp EXCEPT !.ret = cp.pool[item]]
    ELSE [pool |-> [it \in (DOMAIN cp.pool) \cup {item} |->
                       IF it = item THEN cp.next_index ELSE cp.pool[it]],
          next_index |-> cp.next_index,
          order |-> Append(cp.order, item),
          ret |-> cp.next_index]

\* ConstantPool::get_or_insert
GetOrInsert(cp, item) ==
    IF item \in DOMAIN cp.pool
    THEN [cp EXCEPT !.ret = cp.pool[item]]
    ELSE [pool |-> [it \in (DOMAIN cp.pool) \cup {item} |->
                       IF it = item THEN cp.next_index ELSE cp.pool[it]],
          next_index |-> cp.next_index + 1,
          order |-> Append(cp.order, item),
          ret |-> cp.next_index]

\* add_item(PoolItem::Utf8)
AddUtf8(cp, s) == GetOrInsert(cp, Utf8Item(s))

\* An add_item(PoolItem::String) that registers the String entry before its text.
AddStringDangling(cp, s) ==
    LET c1 == GetOrInsert(cp, StringItem(cp.next_index + 1))
        c2 == AddUtf8(c1, s)
    IN  [c2 EXCEPT !.ret = c1.ret]

\* add_item(PoolItem::String)
AddString(cp, s) ==
    LET c1 == AddUtf8(cp, s)
    IN  GetOrInsert(c1, StringItem(c1.ret))

\* add_item(PoolItem::Class)
AddClass(cp, s) ==
    LET c1 == AddUtf8(cp, s)
    IN  GetOrInsert(c1, ClassRefItem(c1.ret))

\* add_item(PoolItem::NameAndType)
AddNameAndType(cp, name, descriptor) ==
    LET c1 == AddUtf8(cp, name)
        c2 == AddUtf8(c1, descriptor)
    IN  GetOrInsert(c2, NameAndTypeItem(c1.ret, c2.ret))

\* add_item(PoolItem::MethodRef)
\* An add_method that registers the method reference anew at every call.
AddMethodAnew(cp, class, method, descriptor) ==
    LET c1 == AddClass(cp, class)
        c2 == AddNameAndType(c1, method, descriptor)
    IN  GetOrInsertAlways(c2, MethodRefItem(c1.ret, c2.ret))

AddMethod(cp, class, method, descriptor) ==
    LET c1 == AddClass(cp, class)
        c2 == AddNameAndType(c1, method, descriptor)
    IN  GetOrInsert(c2, MethodRefItem(c1.ret, c2.ret))

\* The descriptors the add calls of the model are given.
Descriptors ==
    { <<"utf8", s, "", "">> : s \in Texts } \cup
    { <<"string", s, "", "">> : s \in Texts } \cup
    { <<"class", s, "", "">> : s \in Texts } \cup
    { <<"method", c, m, d>> : c \in Texts, m \in Texts, d \in Texts }

\* add_utf8 / add_string / add_class / add_method, by descriptor
AddCall(cp, d) ==
    CASE d[1] = "utf8" -> AddUtf8(cp, d[2])
      [] d[1] = "string" -> AddString(cp, d[2])
      [] d[1] = "class" -> AddClass(cp, d[2])
      [] d[1] = "method" -> AddMethod(cp, d[2], d[3], d[4])

(***************************************************************************)
(* VariableStack (src/src/jvm/variable_stack.rs) and JvmType               *)
(* (src/src/jvm/jvm_type.rs).                                              *)
(***************************************************************************)
JvmType == {"Boolean", "Byte", "Char", "Short", "Int", "Long", "Float", "Double",
            "Reference"}

\* The result of a HashMap lookup that finds nothing.
None == [some |-> FALSE, index |-> 0, jvm_type |-> ""]
Some(index, jvm_type) == [some |-> TRUE, index |-> index, jvm_type |-> jvm_type]

\* VariableStack::new: the first slot issued.
FirstSlot == 0

\* VariableStack::new
NewVariableStack == [indices |-> <<>>, next_index |-> FirstSlot]

\* A get that answers for an unknown name with the first slot.
VsGetOrFirstSlot(vs, name) ==
    IF name \in DOMAIN vs.indices
    THEN Some(vs.indices[name][1], vs.indices[name][2])
    ELSE Some(FirstSlot, "Int")

\* VariableStack::get
VsGet(vs, name) ==
    IF name \in DOMAIN vs.indices
    THEN Some(vs.indices[name][1], vs.indices[name][2])
    ELSE None

\* VariableStack::create: the new stack and the index it returns.
VsCreate(vs, name, jvm_type) ==
    [vs |-> [indices |-> [n \in (DOMAIN vs.indices) \cup {name} |->
                             IF n = name THEN <<vs.next_index, jvm_type>>
                             ELSE vs.indices[n]],
             next_index |-> vs.next_index + 1],
     index |-> vs.next_index]

\* A drop that leaves the binding in place.
VsDropNothing(vs, name) == vs

\* A drop that hands the dropped binding's slot back to the allocator.
VsDropRecycling(vs, name) ==
    IF name \in DOMAIN vs.indices
    THEN [indices |-> [n \in (DOMAIN vs.indices) \ {name} |-> vs.indices[n]],
          next_index |-> vs.indices[name][1]]
    ELSE vs

\* VariableStack::drop
VsDrop(vs, name) ==
    [vs EXCEPT !.indices = [n \in (DOMAIN vs.indices) \ {name} |-> vs.indices[n]]]

\* The pool of the state, as the value the add operations thread.
ThisPool == [pool |-> pool, next_index |-> next_index, order |-> order, ret |-> 0]

NoLowering == [phase |-> "off"]
NoEncoding == [phase |-> "off"]
NoPipeline == [pc |-> "off"]

Idle == [phase |-> "idle", table |-> <<>>, todo |-> {}, out |-> <<>>]

PoolInit ==
    /\ pool = NewPool.pool
    /\ next_index = NewPool.next_index
    /\ order = NewPool.order
    /\ log = <<>>
    /\ wr = Idle
    /\ slots = NewVariableStack
    /\ slog = <<>>
    /\ low = NoLowering
    /\ enc = NoEncoding
    /\ pipe = NoPipeline

\* One call of add_utf8, add_string, add_class or add_method.
Add ==
    /\ wr.phase = "idle"
    /\ Len(log) < MaxCalls
    /\ \E d \in Descriptors :
          LET cp == AddCall(ThisPool, d)
          IN  /\ pool' = cp.pool
              /\ next_index' = cp.next_index
              /\ order' = cp.order
              /\ log' = Append(log, <<d, cp.ret>>)
    /\ UNCHANGED <<wr, notPool>>

(***************************************************************************)
(* ConstantPool::write_to_file (src/src/constant_pool.rs:113-149).         *)
(***************************************************************************)
\* The value write_to_file fills the table with before the first loop.
Placeholder == StringItem(0)

\* What the second loop writes for one table entry: the tag byte, then the
\* payload (a Utf8 entry's text, or the stored indices as big-endian u16).
U16Bytes(n) == <<(n \div 256) % 256, n % 256>>

\* write_u32::<BigEndian> of a length.
U32Bytes(n) ==
    <<(n \div 16777216) % 256, (n \div 65536) % 256, (n \div 256) % 256, n % 256>>

\* The four big-endian bytes of an i32 in two's complement.
I32Bytes(v) ==
    IF v >= 0 THEN U32Bytes(v)
    ELSE LET m == U32Bytes(-v - 1) IN [k \in 1..4 |-> 255 - m[k]]

\* The entries of the pool the jvm module uses that the pool of
\* src/src/constant_pool.rs does not have: an integer is written as tag 3
\* and its four bytes, a field reference as tag 9 and its two indices.
MissingEntryBytes(item) ==
    CASE item.tag = "Integer" -> [tag |-> 3, text |-> "", bytes |-> I32Bytes(item.a)]
      [] item.tag = "FieldRef" ->
            [tag |-> 9, text |-> "", bytes |-> U16Bytes(item.a) \o U16Bytes(item.b)]

EntryBytes(item) ==
    CASE item.tag = "Utf8" ->
            [tag |-> 1, text |-> item.text, bytes |-> U16Bytes(Len(item.text))]
      [] item.tag = "String" -> [tag |-> 8, text |-> "", bytes |-> U16Bytes(item.a)]
      [] item.tag = "ClassRef" -> [tag |-> 7, text |-> "", bytes |-> U16Bytes(item.a)]
      [] item.tag = "NameAndType" ->
            [tag |-> 12, text |-> "", bytes |-> U16Bytes(item.a) \o U16Bytes(item.b)]
      [] item.tag = "MethodRef" ->
            [tag |-> 10, text |-> "", bytes |-> U16Bytes(item.a) \o U16Bytes(item.b)]
      [] OTHER -> MissingEntryBytes(item)

\* A first loop that stores each item one position too high.
TableSlotShifted(index) == index

\* The table position the first loop stores the item with this index at.
TableSlot(index) == index - 1

\* The orders in which the hash map may yield its entries: the order of
\* insertion and its reverse stand for all of them.
IterationOrders(cp) ==
    {cp.order, [k \in 1..Len(cp.order) |-> cp.order[Len(cp.order) + 1 - k]]}

\* The first loop of write_to_file over the entries in the order iter.
RECURSIVE FillTable(_, _, _)
FillTable(cp, iter, table) ==
    IF iter = <<>> THEN [table |-> table, panic |-> FALSE]
    ELSE LET at == TableSlot(cp.pool[Head(iter)]) + 1
         IN  IF at \in 1..Len(table)
             THEN FillTable(cp, Tail(iter), [table EXCEPT ![at] = Head(iter)])
             ELSE [table |-> table, panic |-> TRUE]

\* A table that keeps the entries in the order the hash map yields them.
PoolTableInIterationOrder(cp, iter) == [table |-> iter, panic |-> FALSE]

\* The table the second loop of write_to_file walks.
PoolTable(cp, iter) == FillTable(cp, iter, [k \in 1..PoolLen(cp) |-> Placeholder])

\* write_to_file is entered: the table is sized to the pool and filled with
\* the placeholder, and the iteration over the hash map begins.
WriteBegin ==
    /\ wr.phase = "idle"
    /\ Len(log) <= MaxWriteCalls
    /\ wr' = [phase |-> "fill",
              table |-> [k \in 1..Cardinality(DOMAIN pool) |-> Placeholder],
              todo |-> DOMAIN pool,
              out |-> <<>>]
    /\ UNCHANGED <<poolVars, notPool>>

\* One iteration of `for (item, &index) in &self.pool`: the hash map yields
\* its entries in an order of its own, so the next item is any not yet seen.
\* Position 0 of the Vec is table[1] here; an index outside the Vec panics.
WriteFill ==
    /\ wr.phase = "fill"
    /\ \E item \in wr.todo :
          LET at == TableSlot(pool[item]) + 1
          IN  IF at \in 1..Len(wr.table)
              THEN wr' = [wr EXCEPT !.table[at] = item, !.todo = @ \ {item}]
              ELSE wr' = [wr EXCEPT !.phase = "panicked"]
    /\ UNCHANGED <<poolVars, notPool>>

\* The first loop is over.
WriteFilled ==
    /\ wr.phase = "fill"
    /\ wr.todo = {}
    /\ wr' = [wr EXCEPT !.phase = "emit"]
    /\ UNCHANGED <<poolVars, notPool>>

\* One iteration of `for item in table`: the entry is written to the file,
\* or the write fails and write_to_file returns the error.
WriteEntry ==
    /\ wr.phase = "emit"
    /\ Len(wr.out) < Len(wr.table)
    /\ \/ wr' = [wr EXCEPT !.out = Append(@, EntryBytes(wr.table[Len(wr.out) + 1]))]
       \/ wr' = [wr EXCEPT !.phase = "failed"]
    /\ UNCHANGED <<poolVars, notPool>>

\* Ok(()) is returned.
WriteOk ==
    /\ wr.phase = "emit"
    /\ Len(wr.out) = Len(wr.table)
    /\ wr' = [wr EXCEPT !.phase = "done"]
    /\ UNCHANGED <<poolVars, notPool>>

\* The caller goes on with the pool.
WriteReturn ==
    /\ wr.phase \in {"done", "failed"}
    /\ wr' = Idle
    /\ UNCHANGED <<poolVars, notPool>>

PoolNext ==
    \/ Add
    \/ WriteBegin
    \/ WriteFill
    \/ WriteFilled
    \/ WriteEntry
    \/ WriteOk
    \/ WriteReturn

Spec == PoolInit /\ [][PoolNext]_vars

(***************************************************************************)
(* Claims about the constant pool.                                         *)
(***************************************************************************)
\* The entry of the pool that holds this index.
EntryAt(k) == CHOOSE it \in DOMAIN pool : pool[it] = k

\* C1: an add call whose descriptor was given to an earlier call returns the
\* index that earlier call returned and changes neither the pool's length nor
\* any entry-to-index mapping.
C1_AddIdempotent ==
    [][ (/\ Len(log') = Len(log) + 1
         /\ \E i \in 1..Len(log) : log[i][1] = log'[Len(log')][1])
        => (/\ \A i \in 1..Len(log) :
                  log[i][1] = log'[Len(log')][1] => log[i][2] = log'[Len(log')][2]
            /\ pool' = pool
            /\ next_index' = next_index) ]_vars

\* C1 witness: some descriptor has been added twice.
C1_Witness ==
    \E i, j \in 1..Len(log) : i < j /\ log[i][1] = log[j][1] /\ log[i][1][1] = "method"

\* The entry an add call with this descriptor registers (or finds).
RegisteredBy(d) ==
    CASE d[1] = "utf8" -> Utf8Item(d[2])
      [] d[1] = "string" -> StringItem(pool[Utf8Item(d[2])])
      [] d[1] = "class" -> ClassRefItem(pool[Utf8Item(d[2])])
      [] d[1] = "method" ->
            MethodRefItem(pool[ClassRefItem(pool[Utf8Item(d[2])])],
                          pool[NameAndTypeItem(pool[Utf8Item(d[3])], pool[Utf8Item(d[4])])])

\* C2: the k-th distinct entry registered has index k, so the issued indices
\* are exactly 1..len(), distinct and increasing in first-insertion order;
\* and the index every earlier add call returned still maps to the entry
\* that call registered (no renumbering, no removal).
C2_DenseStableIndices ==
    /\ Len(order) = Cardinality(DOMAIN pool)
    /\ \A k \in 1..Len(order) : order[k] \in DOMAIN pool /\ pool[order[k]] = k
    /\ {pool[it] : it \in DOMAIN pool} = 1..Cardinality(DOMAIN pool)
    /\ \A i \in 1..Len(log) :
          RegisteredBy(log[i][1]) \in DOMAIN pool
          /\ pool[RegisteredBy(log[i][1])] = log[i][2]

\* C2 witness: three calls have registered at least four entries.
C2_Witness == Len(log) = 3 /\ Cardinality(DOMAIN pool) >= 4

\* C3: every index a composite entry stores is the index of an entry of the
\* pool, of the expected kind, and not above the composite entry's own index.
RefersTo(item, index, kind) ==
    \E dep \in DOMAIN pool :
        /\ pool[dep] = index
        /\ dep.tag = kind
        /\ pool[dep] <= pool[item]
        /\ \A other \in DOMAIN pool : pool[other] = index => other = dep

C3_DependenciesPresent ==
    \A item \in DOMAIN pool :
        CASE item.tag \in {"String", "ClassRef"} -> RefersTo(item, item.a, "Utf8")
          [] item.tag = "NameAndType" ->
                RefersTo(item, item.a, "Utf8") /\ RefersTo(item, item.b, "Utf8")
          [] item.tag = "MethodRef" ->
                RefersTo(item, item.a, "ClassRef") /\ RefersTo(item, item.b, "NameAndType")
          [] OTHER -> TRUE

\* C3 witness: a MethodRef, a String and a NameAndType entry are in the pool.
C3_Witness ==
    /\ \E item \in DOMAIN pool : item.tag = "MethodRef"
    /\ \E item \in DOMAIN pool : item.tag = "String"

\* C4: write_to_file never fails on the table, every table position holds
\* the entry with that index once the first loop is over, and the entries
\* are written in ascending index order, each once, whatever order the
\* hash map was iterated in.
C4_WrittenInIndexOrder ==
    /\ wr.phase # "panicked"
    /\ wr.phase \in {"emit", "done", "failed"} =>
          /\ Len(wr.table) = Cardinality(DOMAIN pool)
          /\ \A k \in 1..Len(wr.table) :
                wr.table[k] # Placeholder /\ wr.table[k] \in DOMAIN pool
                /\ pool[wr.table[k]] = k
    /\ \A k \in 1..Len(wr.out) :
          k \in {pool[it] : it \in DOMAIN pool} /\ wr.out[k] = EntryBytes(EntryAt(k))
    /\ wr.phase = "done" => Len(wr.out) = Cardinality(DOMAIN pool)

\* C4 witness: a pool of at least five entries has been written out whole.
C4_Witness == wr.phase = "done" /\ Len(wr.out) >= 5

(***************************************************************************)
(* The VariableStack API: any sequence of create, get and drop.            *)
(***************************************************************************)
SlotsInit ==
    /\ pool = NewPool.pool
    /\ next_index = NewPool.next_index
    /\ order = NewPool.order
    /\ log = <<>>
    /\ wr = Idle
    /\ slots = NewVariableStack
    /\ slog = <<>>
    /\ low = NoLowering
    /\ enc = NoEncoding
    /\ pipe = NoPipeline

\* VariableStack::create is called.
Create ==
    /\ Len(slog) < MaxSlotOps
    /\ \E name \in Names, jvm_type \in StoredTypes :
          LET r == VsCreate(slots, name, jvm_type)
          IN  /\ slots' = r.vs
              /\ slog' = Append(slog, [op |-> "create", name |-> name,
                                       some |-> TRUE, index |-> r.index])
    /\ UNCHANGED notSlots

\* VariableStack::get is called.
Get ==
    /\ Len(slog) < MaxSlotOps
    /\ \E name \in Names :
          LET r == VsGet(slots, name)
          IN  slog' = Append(slog, [op |-> "get", name |-> name,
                                    some |-> r.some, index |-> r.index])
    /\ UNCHANGED <<slots, notSlots>>

\* VariableStack::drop is called.
Drop ==
    /\ Len(slog) < MaxSlotOps
    /\ \E name \in Names :
          /\ slots' = VsDrop(slots, name)
          /\ slog' = Append(slog, [op |-> "drop", name |-> name,
                                   some |-> FALSE, index |-> 0])
    /\ UNCHANGED notSlots

SlotsNext ==
    \/ Create
    \/ Get
    \/ Drop

SpecSlots == SlotsInit /\ [][SlotsNext]_vars

\* The number of create calls among the first n calls.
CreatesBefore(n) == Cardinality({j \in 1..n : slog[j].op = "create"})

\* C10: the create calls of one VariableStack return 0, 1, 2, ... in the
\* order they are made, whatever drop calls come between them, so no index
\* is issued twice; a drop removes exactly the name's binding, and a lookup
\* finds the index of the name's latest create not followed by a drop.
C10_SlotsNeverReused ==
    /\ \A i \in 1..Len(slog) :
          slog[i].op = "create" => slog[i].index = CreatesBefore(i - 1)
    /\ \A i, j \in 1..Len(slog) :
          (i < j /\ slog[i].op = "create" /\ slog[j].op = "create")
              => slog[i].index # slog[j].index
    /\ slots.next_index = CreatesBefore(Len(slog))
    /\ \A i \in 1..Len(slog) :
          (slog[i].op = "drop"
           /\ \A j \in (i + 1)..Len(slog) :
                 ~(slog[j].op = "create" /\ slog[j].name = slog[i].name))
              => slog[i].name \notin DOMAIN slots.indices

\* C10 witness: a create, then a drop of that name, then another create.
C10_Witness ==
    \E i, j, k \in 1..Len(slog) :
        /\ i < j /\ j < k
        /\ slog[i].op = "create" /\ slog[j].op = "drop" /\ slog[k].op = "create"
        /\ slog[j].name = slog[i].name

(***************************************************************************)
(* The concrete instructions and the encoder (src/src/jvm/bytecode.rs).    *)
(* One record shape for every variant: label is the label a marker or a    *)
(* branch names, arg the numeric operand, class/name/descriptor the texts  *)
(* of a Getstatic or Invokevirtual that the encoder resolves itself.       *)
(***************************************************************************)
Ins(op, label, arg) ==
    [op |-> op, label |-> label, arg |-> arg,
     class |-> "", name |-> "", descriptor |-> "", resolved |-> FALSE]

\* A Getstatic or Invokevirtual naming its target by text.
InsNamed(op, class, name, descriptor) ==
    [op |-> op, label |-> 0, arg |-> 0,
     class |-> class, name |-> name, descriptor |-> descriptor, resolved |-> FALSE]

\* The variants compile_to_jvm_instructions emits that bytecode.rs under
\* src/ does not declare, sized as the encoder contract sizes them:
\* 3 bytes with a 16-bit operand, 2 bytes with a one-byte operand.
MissingLen(ins) ==
    CASE ins.op = "IfIcmpeq" -> 3
      [] ins.op = "Aload" -> 2
      [] ins.op = "Astore" -> 2

\* Instruction::len
InstructionLen(ins) ==
    CASE ins.op = "Label" -> 0
      [] ins.op = "Goto" -> 3
      [] ins.op = "Bipush" -> 2
      [] ins.op = "Istore" -> 2
      [] ins.op = "Ldc" -> 2
      [] ins.op = "Iadd" -> 1
      [] ins.op = "Iload" -> 2
      [] ins.op = "Getstatic" -> 3
      [] ins.op = "IfIcmpne" -> 3
      [] ins.op = "Ifne" -> 3
      [] ins.op = "Ifeq" -> 3
      [] ins.op = "Invokevirtual" -> 3
      [] ins.op = "Return" -> 1
      [] OTHER -> MissingLen(ins)

\* One iteration of the loop of scan_for_labels.
ScanOne(ins, st) ==
    IF ins.op = "Label"
    THEN [st EXCEPT !.labels = [l \in (DOMAIN st.labels) \cup {ins.label} |->
                                   IF l = ins.label THEN st.i ELSE st.labels[l]]]
    ELSE [st EXCEPT !.i = st.i + InstructionLen(ins)]

\* The loop of scan_for_labels over code[lo..hi], in order.  The range is
\* walked by halves, the first half before the second.
RECURSIVE ScanRange(_, _, _, _)
ScanRange(code, lo, hi, st) ==
    IF lo > hi THEN st
    ELSE IF lo = hi THEN ScanOne(code[lo], st)
    ELSE LET mid == (lo + hi) \div 2
             first == ScanRange(code, lo, mid, st)
         IN  IF first.i >= 0 THEN ScanRange(code, mid + 1, hi, first) ELSE first

\* scan_for_labels: the labels map.
ScanForLabels(code) ==
    ScanRange(code, 1, Len(code), [labels |-> <<>>, i |-> 0]).labels

\* `as i16` of an isize: the low 16 bits, read as two's complement.
AsI16(n) ==
    LET m == ((n % 65536) + 65536) % 65536
    IN  IF m >= 32768 THEN m - 65536 ELSE m

\* write_i16::<BigEndian>
I16Bytes(v) == U16Bytes(IF v < 0 THEN v + 65536 ELSE v)

\* The operand of a branch at offset `here` to a label at offset `target`.
BranchOperand(target, here) == I16Bytes(AsI16(target - here))

\* ConstantPool::add_integer and add_field of the jvm module, which src/
\* does not hold: deduplicating adds like the others, an Integer entry
\* keyed by its value, a FieldRef entry by its class and name-and-type.
IntegerItem(v) == [tag |-> "Integer", text |-> "", a |-> v, b |-> 0]
FieldRefItem(c, nt) == [tag |-> "FieldRef", text |-> "", a |-> c, b |-> nt]

AddInteger(cp, v) == GetOrInsert(cp, IntegerItem(v))

AddField(cp, class, field, field_type) ==
    LET c1 == AddClass(cp, class)
        c2 == AddNameAndType(c1, field, field_type)
    IN  GetOrInsert(c2, FieldRefItem(c1.ret, c2.ret))

\* The opcodes of the branch instructions.
BranchOps == {"Goto", "IfIcmpne", "Ifne", "Ifeq", "IfIcmpeq"}

\* The opcode of IfIcmpeq, which bytecode.rs under src/ does not declare.
OpcodeIfIcmpeq == 159

BranchOpcode(op) ==
    CASE op = "Goto" -> 167
      [] op = "IfIcmpne" -> 160
      [] op = "Ifne" -> 154
      [] op = "Ifeq" -> 153
      [] op = "IfIcmpeq" -> OpcodeIfIcmpeq

\* The bytes of the variants bytecode.rs under src/ does not declare, and of
\* a Ldc, Getstatic or Invokevirtual that carries a resolved pool index:
\* the opcode, then the operand big-endian.
MissingBytes(ins) ==
    CASE ins.op = "Aload" -> <<25, ins.arg>>
      [] ins.op = "Astore" -> <<58, ins.arg>>
      [] ins.op = "Ldc" -> <<18, ins.arg>>
      [] ins.op = "Getstatic" -> <<178>> \o U16Bytes(ins.arg)
      [] ins.op = "Invokevirtual" -> <<182>> \o U16Bytes(ins.arg)

\* A lookup that takes the start of the code for a label without a marker.
LabelTargetOrStart(labels, label) ==
    [found |-> TRUE, offset |-> IF label \in DOMAIN labels THEN labels[label] ELSE 0]

\* labels.get(label): the offset of the marker; expect() panics on None.
LabelTarget(labels, label) ==
    IF label \in DOMAIN labels
    THEN [found |-> TRUE, offset |-> labels[label]]
    ELSE [found |-> FALSE, offset |-> 0]

\* One iteration of the loop of compile_instructions: the match, then
\* `i += instruction.len()`.  st.starts records where each instruction's
\* bytes begin in the output.
EmitOne(ins, st, labels) ==
    LET put(bytes) == [st EXCEPT !.bytecode = st.bytecode \o bytes,
                                 !.starts = Append(st.starts, Len(st.bytecode)),
                                 !.i = st.i + InstructionLen(ins)]
        putPool(cp, bytes) == [put(bytes) EXCEPT !.cp = cp]
    IN  CASE ins.op = "Label" -> put(<<>>)
          [] ins.op \in BranchOps ->
                LET target == LabelTarget(labels, ins.label)
                IN  IF target.found
                    THEN put(<<BranchOpcode(ins.op)>> \o BranchOperand(target.offset, st.i))
                    ELSE [st EXCEPT !.panic = TRUE]
          [] ins.op = "Bipush" -> put(<<16, ins.arg>>)
          [] ins.op = "Istore" -> put(<<54, ins.arg>>)
          [] ins.op = "Ldc" /\ ~ins.resolved ->
                LET cp == AddInteger(st.cp, ins.arg)
                IN  IF cp.ret <= 255
                    THEN putPool(cp, <<18, cp.ret>>)
                    ELSE putPool(cp, <<19>> \o U16Bytes(cp.ret))
          [] ins.op = "Iadd" -> put(<<96>>)
          [] ins.op = "Iload" -> put(<<21, ins.arg>>)
          [] ins.op = "Getstatic" /\ ~ins.resolved ->
                LET cp == AddField(st.cp, ins.class, ins.name, ins.descriptor)
                IN  putPool(cp, <<178>> \o U16Bytes(cp.ret))
          [] ins.op = "Invokevirtual" /\ ~ins.resolved ->
                LET cp == AddMethod(st.cp, ins.class, ins.name, ins.descriptor)
                IN  putPool(cp, <<182>> \o U16Bytes(cp.ret))
          [] ins.op = "Return" -> put(<<177>>)
          [] OTHER -> put(MissingBytes(ins))

\* The loop of compile_instructions over code[lo..hi], in order, stopping at
\* a panic.  The range is walked by halves, the first half before the second.
RECURSIVE EmitRange(_, _, _, _, _)
EmitRange(code, lo, hi, st, labels) ==
    IF lo > hi THEN st
    ELSE IF lo = hi THEN EmitOne(code[lo], st, labels)
    ELSE LET mid == (lo + hi) \div 2
             first == EmitRange(code, lo, mid, st, labels)
         IN  IF first.panic THEN first ELSE EmitRange(code, mid + 1, hi, first, labels)

\* compile_instructions
CompileInstructions(code, cp) ==
    EmitRange(code, 1, Len(code),
              [bytecode |-> <<>>, starts |-> <<>>, i |-> 0, cp |-> cp, panic |-> FALSE],
              ScanForLabels(code))

(***************************************************************************)
(* The encoder on one instruction list.                                    *)
(***************************************************************************)
\* The instructions the short inputs are made of.
EncAlphabet ==
    { Ins("Label", l, 0) : l \in {0, 1} } \cup
    { Ins(op, 0, 0) : op \in {"Goto", "Ifeq", "IfIcmpne"} } \cup
    { Ins(op, 1, 0) : op \in {"Goto", "Ifne", "IfIcmpeq"} } \cup
    { Ins("Iadd", 0, 0), Ins("Bipush", 0, 1), Ins("Ldc", 0, 7),
      InsNamed("Invokevirtual", "a", "b", "a") }

\* Every instruction list of at most MaxCodeLen instructions.
ShortCodes == UNION { [1..n -> EncAlphabet] : n \in 0..MaxCodeLen }

\* n branches to label 0, with its marker behind them (forward branches over
\* up to 3n bytes) or before them (backward branches over up to 3n bytes).
LongForward(n) == [k \in 1..(n + 1) |-> IF k <= n THEN Ins("Goto", 0, 0)
                                                   ELSE Ins("Label", 0, 0)]
LongBackward(n) == [k \in 1..(n + 2) |-> IF k = 1 THEN Ins("Label", 0, 0)
                                                   ELSE Ins("Goto", 0, 0)]
LongCodes == {LongForward(LongCodeLen), LongBackward(LongCodeLen)}

\* The greatest pool index `index.try_into()` turns into a u8.
NarrowIndexMax == 255

\* The pool that add_utf8 of the texts "1", .., "n", in this order, leaves.
FilledPool(n) ==
    [pool |-> [it \in {Utf8Item(ToString(k)) : k \in 1..n} |->
                  FirstIndex - 1 + CHOOSE k \in 1..n : it = Utf8Item(ToString(k))],
     next_index |-> FirstIndex + n,
     order |-> [k \in 1..n |-> Utf8Item(ToString(k))],
     ret |-> 0]

\* The pools compile_instructions is handed: a new one, and one whose next
\* index no longer fits a byte.
FullPool == FilledPool(NarrowIndexMax)
StartPools == {NewPool, FullPool}

EncInit ==
    /\ log = <<>>
    /\ wr = Idle
    /\ slots = NewVariableStack
    /\ slog = <<>>
    /\ low = NoLowering
    /\ pipe = NoPipeline
    /\ \E code \in ShortCodes \cup LongCodes, cp \in StartPools :
          /\ cp = NewPool \/ Len(code) <= MaxCodeLen
          /\ pool = cp.pool
          /\ next_index = cp.next_index
          /\ order = cp.order
          /\ enc = [phase |-> "ready", code |-> code, labels |-> <<>>,
                    bytecode |-> <<>>, starts |-> <<>>, against |-> "",
                    second |-> [bytecode |-> <<>>, panic |-> FALSE], given |-> cp]

\* compile_instructions(&code, &mut constant_pool) runs: it returns the
\* bytes, or panics on a branch whose label has no marker.
Encode ==
    /\ enc.phase = "ready"
    /\ LET r == CompileInstructions(enc.code, ThisPool)
       IN  IF r.panic
           THEN /\ enc' = [enc EXCEPT !.phase = "panicked",
                                      !.labels = ScanForLabels(enc.code)]
                /\ UNCHANGED <<pool, next_index, order>>
           ELSE /\ enc' = [enc EXCEPT !.phase = "done",
                                      !.labels = ScanForLabels(enc.code),
                                      !.bytecode = r.bytecode,
                                      !.starts = r.starts]
                /\ pool' = r.cp.pool
                /\ next_index' = r.cp.next_index
                /\ order' = r.cp.order
    /\ UNCHANGED notEnc

\* The pools a second compile_instructions on the same list may be given:
\* the one the first call left, or one equal to what the first was given.
SecondPools == [left |-> ThisPool, given |-> enc.given]

\* compile_instructions runs once more on the list it has encoded.
EncodeAgain ==
    /\ enc.phase = "done"
    /\ \E against \in DOMAIN SecondPools :
          LET r == CompileInstructions(enc.code, SecondPools[against])
          IN  /\ enc' = [enc EXCEPT !.phase = "twice", !.against = against,
                                    !.second = [bytecode |-> r.bytecode,
                                                panic |-> r.panic]]
              /\ pool' = r.cp.pool
              /\ next_index' = r.cp.next_index
              /\ order' = r.cp.order
    /\ UNCHANGED notEnc

EncNext ==
    \/ Encode
    \/ EncodeAgain

SpecEnc == EncInit /\ [][EncNext]_vars

\* read_i16::<BigEndian> of two bytes.
DecodeI16(b1, b2) ==
    LET u == b1 * 256 + b2
    IN  IF u >= 32768 THEN u - 65536 ELSE u

\* The operand a branch at position p of the input was encoded with.
EncodedOperand(p) ==
    DecodeI16(enc.bytecode[enc.starts[p] + 2], enc.bytecode[enc.starts[p] + 3])

\* C5: in the bytes compile_instructions returns, the operand of every branch
\* whose label has a marker, read as a big-endian signed 16-bit integer and
\* added to the offset the branch starts at, is the offset recorded for the
\* marker.
C5_BranchReachesLabel ==
    enc.phase = "done" =>
        \A p \in 1..Len(enc.code) :
            (enc.code[p].op \in BranchOps /\ enc.code[p].label \in DOMAIN enc.labels)
                => enc.starts[p] + EncodedOperand(p) = enc.labels[enc.code[p].label]

(***************************************************************************)
(* Pseudo-instructions and their lowering                                  *)
(* (src/src/jvm/pseudo_instruction.rs).  One record shape for every        *)
(* variant of PseudoInstruction.                                           *)
(***************************************************************************)
Pseudo(op) ==
    [op |-> op, label |-> 0, literal |-> "", int |-> 0, text |-> "",
     var |-> "", create |-> FALSE, class |-> "", member |-> "", descriptor |-> ""]

PLabel(l) == [Pseudo("Label") EXCEPT !.label = l]
PGoto(l) == [Pseudo("Goto") EXCEPT !.label = l]
PIfeq(l) == [Pseudo("Ifeq") EXCEPT !.label = l]
PIfne(l) == [Pseudo("Ifne") EXCEPT !.label = l]
\* Push(PushLiteral::Boolean | Byte | Int | Long | ...) of a number.
PPush(literal, int) == [Pseudo("Push") EXCEPT !.literal = literal, !.int = int]
\* Push(PushLiteral::String)
PPushString(text) == [Pseudo("Push") EXCEPT !.literal = "String", !.text = text]
PLoad(var) == [Pseudo("Load") EXCEPT !.var = var]
PStore(var, create) == [Pseudo("Store") EXCEPT !.var = var, !.create = create]
PDrop(var) == [Pseudo("Drop") EXCEPT !.var = var]
PGetstatic(class, field, field_type) ==
    [Pseudo("Getstatic") EXCEPT !.class = class, !.member = field, !.descriptor = field_type]
PInvokevirtual(class, method, descriptor) ==
    [Pseudo("Invokevirtual") EXCEPT !.class = class, !.member = method,
                                    !.descriptor = descriptor]

\* A Ldc, Getstatic or Invokevirtual carrying the pool index lowering resolved.
InsResolved(op, index) == [Ins(op, 0, index) EXCEPT !.resolved = TRUE]

\* LabelGenerator::new
FirstLabel == 0

\* LabelGenerator::get_new_label: the label and the generator after it.
GetNewLabel(g) == [label |-> g, next |-> g + 1]

\* Vec::pop on the operand-type stack: the popped type (None on an empty
\* stack) and the stack left.
Pop(stack) ==
    IF stack = <<>>
    THEN [some |-> FALSE, jvm_type |-> "", rest |-> stack]
    ELSE [some |-> TRUE, jvm_type |-> stack[Len(stack)],
          rest |-> SubSeq(stack, 1, Len(stack) - 1)]

\* A comparison that pushes 0 where the branch falls through and 1 at the
\* false label.
CmpIdiomInverted(branch, false_label, out_label) ==
    << Ins(branch, false_label, 0), Ins("Bipush", 0, 0), Ins("Goto", out_label, 0),
       Ins("Label", false_label, 0), Ins("Bipush", 0, 1), Ins("Label", out_label, 0) >>

\* A comparison idiom without its jump over the false arm.
CmpIdiomFallThrough(branch, false_label, out_label) ==
    << Ins(branch, false_label, 0), Ins("Bipush", 0, 1),
       Ins("Label", false_label, 0), Ins("Bipush", 0, 0), Ins("Label", out_label, 0) >>

\* The instructions the Cmpeq arm (branch IfIcmpne) and the Cmpne arm
\* (branch IfIcmpeq) push.
CmpIdiom(branch, false_label, out_label) ==
    << Ins(branch, false_label, 0), Ins("Bipush", 0, 1), Ins("Goto", out_label, 0),
       Ins("Label", false_label, 0), Ins("Bipush", 0, 0), Ins("Label", out_label, 0) >>

\* A Store arm that creates a slot whether or not `create` is set.
StoreIndexAlwaysCreate(vs, var, create, jvm_type) ==
    LET c == VsCreate(vs, var, jvm_type)
    IN  [some |-> TRUE, index |-> c.index, vs |-> c.vs]

\* The slot a Store writes: `match create { true => create(..), false => get(..) }`.
StoreIndex(vs, var, create, jvm_type) ==
    IF create
    THEN LET c == VsCreate(vs, var, jvm_type)
         IN  [some |-> TRUE, index |-> c.index, vs |-> c.vs]
    ELSE LET g == VsGet(vs, var)
         IN  [some |-> g.some, index |-> g.index, vs |-> vs]

\* One iteration of the loop of compile_to_jvm_instructions.  st holds the
\* locals of the function and the pool and label generator it borrows;
\* st.panic is set where the code reaches todo!().
LowerOne(ins, st) ==
    LET Panic == [st EXCEPT !.panic = TRUE]
        emit(s, seq) == [s EXCEPT !.instructions = s.instructions \o seq]
        push(s, t) == [s EXCEPT !.operand_stack = Append(s.operand_stack, t)]
        ldc(s, cp) == IF cp.ret <= 255
                      THEN emit([s EXCEPT !.cp = cp], <<InsResolved("Ldc", cp.ret)>>)
                      ELSE [s EXCEPT !.cp = cp, !.panic = TRUE]
        p1 == Pop(st.operand_stack)
        p2 == Pop(p1.rest)
        popped1 == [st EXCEPT !.operand_stack = p1.rest]
        popped2 == [st EXCEPT !.operand_stack = p2.rest]
        cmp(branch) ==
            IF p1.some /\ p2.some /\ p1.jvm_type = "Int" /\ p2.jvm_type = "Int"
            THEN LET l1 == GetNewLabel(st.label_generator)
                     l2 == GetNewLabel(l1.next)
                 IN  emit([push(popped2, "Int") EXCEPT !.label_generator = l2.next],
                          CmpIdiom(branch, l1.label, l2.label))
            ELSE Panic
    IN  CASE ins.op = "Label" -> emit(st, <<Ins("Label", ins.label, 0)>>)
          [] ins.op = "Goto" -> emit(st, <<Ins("Goto", ins.label, 0)>>)
          [] ins.op = "Push" ->
                CASE ins.literal = "Boolean" ->
                        emit(push(st, "Boolean"), <<Ins("Bipush", 0, ins.int)>>)
                  [] ins.literal = "Byte" ->
                        emit(push(st, "Byte"), <<Ins("Bipush", 0, ins.int)>>)
                  [] ins.literal = "Int" ->
                        ldc(push(st, "Int"), AddInteger(st.cp, ins.int))
                  [] ins.literal = "String" ->
                        ldc(push(st, "Reference"), AddString(st.cp, ins.text))
                  [] OTHER -> Panic
          [] ins.op = "Load" ->
                LET g == VsGet(st.variable_stack, ins.var)
                IN  IF ~g.some THEN Panic
                    ELSE CASE g.jvm_type \in {"Boolean", "Int"} ->
                                emit(push(st, g.jvm_type), <<Ins("Iload", 0, g.index)>>)
                           [] g.jvm_type = "Reference" ->
                                emit(push(st, g.jvm_type), <<Ins("Aload", 0, g.index)>>)
                           [] OTHER -> Panic
          [] ins.op = "Store" ->
                IF ~p1.some THEN Panic
                ELSE LET i == StoreIndex(st.variable_stack, ins.var, ins.create, p1.jvm_type)
                         s == [popped1 EXCEPT !.variable_stack = i.vs]
                     IN  IF ~i.some THEN Panic
                         ELSE CASE p1.jvm_type = "Int" ->
                                     emit(s, <<Ins("Istore", 0, i.index)>>)
                                [] p1.jvm_type = "Reference" ->
                                     emit(s, <<Ins("Astore", 0, i.index)>>)
                                [] OTHER -> Panic
          [] ins.op = "Drop" ->
                [st EXCEPT !.variable_stack = VsDrop(st.variable_stack, ins.var)]
          [] ins.op = "Add" ->
                IF p1.some /\ p2.some /\ p1.jvm_type = "Int" /\ p2.jvm_type = "Int"
                THEN emit(push(popped2, "Int"), <<Ins("Iadd", 0, 0)>>)
                ELSE Panic
          [] ins.op = "Cmpeq" -> cmp("IfIcmpne")
          [] ins.op = "Cmpne" -> cmp("IfIcmpeq")
          [] ins.op = "Ifeq" -> emit(popped1, <<Ins("Ifeq", ins.label, 0)>>)
          [] ins.op = "Ifne" -> emit(popped1, <<Ins("Ifne", ins.label, 0)>>)
          [] ins.op = "Getstatic" ->
                LET cp == AddField(st.cp, ins.class, ins.member, ins.descriptor)
                IN  emit([st EXCEPT !.cp = cp], <<InsResolved("Getstatic", cp.ret)>>)
          [] ins.op = "Invokevirtual" ->
                LET cp == AddMethod(st.cp, ins.class, ins.member, ins.descriptor)
                IN  emit([st EXCEPT !.cp = cp], <<InsResolved("Invokevirtual", cp.ret)>>)
          [] ins.op = "Return" -> emit(st, <<Ins("Return", 0, 0)>>)

\* One iteration of the loop with its entry of st.trace: the instructions
\* emitted so far and the operand-type stack, before and after it, and the
\* variable stack it found.  An iteration that panics leaves the state it
\* found.
LowerStep(ins, st) ==
    LET s == LowerOne(ins, st)
    IN  IF s.panic THEN [st EXCEPT !.panic = TRUE]
        ELSE [s EXCEPT !.trace = Append(st.trace,
                 [from |-> Len(st.instructions), to |-> Len(s.instructions),
                  before |-> st.operand_stack, after |-> s.operand_stack,
                  slots |-> st.variable_stack])]

\* The loop of compile_to_jvm_instructions over code[lo..hi], in order,
\* stopping at a panic.  The range is walked by halves, the first half before
\* the second.
RECURSIVE LowerFrom(_, _, _, _)
LowerFrom(code, lo, hi, st) ==
    IF lo > hi THEN st
    ELSE IF lo = hi THEN LowerStep(code[lo], st)
    ELSE LET mid == (lo + hi) \div 2
             first == LowerFrom(code, lo, mid, st)
         IN  IF first.panic THEN first ELSE LowerFrom(code, mid + 1, hi, first)

\* compile_to_jvm_instructions(pseudo_instructions, label_generator, constant_pool)
CompileToJvmInstructions(code, label_generator, cp) ==
    LowerFrom(code, 1, Len(code),
              [instructions |-> <<>>, variable_stack |-> NewVariableStack,
               operand_stack |-> <<>>, label_generator |-> label_generator,
               cp |-> cp, panic |-> FALSE, trace |-> <<>>])

(***************************************************************************)
(* The AST and CodeCompiler (src/src/parser.rs, src/src/jvm/compiler.rs).  *)
(* One record shape for every Expression: kids holds the sub-expressions   *)
(* in source order, name a label or an operator.                           *)
(***************************************************************************)
Expr(kind, name, int, text, kids) ==
    [kind |-> kind, name |-> name, int |-> int, text |-> text, kids |-> kids]

Integer(int) == Expr("Integer", "", int, "", <<>>)
String(text) == Expr("String", "", 0, text, <<>>)
Unit == Expr("Unit", "", 0, "", <<>>)
Id(name) == Expr("Id", name, 0, "", <<>>)
Declaration(label, rhs) == Expr("Declaration", label, 0, "", <<rhs>>)
Assignment(label, rhs) == Expr("Assignment", label, 0, "", <<rhs>>)
Operation(operator, terms) == Expr("Operation", operator, 0, "", terms)
Scope(expressions) == Expr("Scope", "", 0, "", expressions)
If(guard, base_case) == Expr("If", "", 0, "", <<guard, base_case>>)
IfElse(guard, base_case, else_case) ==
    Expr("IfElse", "", 0, "", <<guard, base_case, else_case>>)
While(guard, body) == Expr("While", "", 0, "", <<guard, body>>)
FunctionCall(name, arguments) == Expr("FunctionCall", "", 0, "", <<name>> \o arguments)

\* CodeCompiler::new
NewCodeCompiler == [code |-> <<>>, label_generator |-> FirstLabel, panic |-> FALSE]

\* self.code.push(..), unless the compiler has panicked.
PushCode(cc, ins) == IF cc.panic THEN cc ELSE [cc EXCEPT !.code = Append(cc.code, ins)]

\* The pseudo-instruction an operator of an Operation becomes.
OperatorCode(operator) ==
    CASE operator = "Plus" -> Pseudo("Add")
      [] operator = "Equality" -> Pseudo("Cmpeq")
      [] operator = "Inequality" -> Pseudo("Cmpne")

\* An If that ends with a jump to its own label before the marker.
CloseIfWithGoto(cc, out_label) ==
    PushCode(PushCode(cc, PGoto(out_label)), PLabel(out_label))

\* The If arm after the base case: the marker of out_label.
CloseIf(cc, out_label) == PushCode(cc, PLabel(out_label))

\* An IfElse whose base case jumps to the else case.
EnterElseLooping(cc, else_label, out_label) ==
    PushCode(PushCode(cc, PGoto(else_label)), PLabel(else_label))

\* The IfElse arm between the base case and the else case: the jump to
\* out_label, then the marker of else_label.
EnterElse(cc, else_label, out_label) ==
    PushCode(PushCode(cc, PGoto(out_label)), PLabel(else_label))

\* A While whose body ends with a jump to the exit.
CloseWhileForward(cc, guard_label, out_label) ==
    PushCode(PushCode(cc, PGoto(out_label)), PLabel(out_label))

\* The While arm after the body: the jump to guard_label, then the marker of
\* out_label.
CloseWhile(cc, guard_label, out_label) ==
    PushCode(PushCode(cc, PGoto(guard_label)), PLabel(out_label))

\* CodeCompiler::compile_expression; CompileEach is its `for e in ..` loops
\* over es[lo..hi] (walked by halves, the first half before the second),
\* CompileTerms the loop over the tail of an Operation.
RECURSIVE CompileExpression(_, _), CompileEach(_, _, _, _), CompileTerms(_, _, _, _)
CompileExpression(e, cc) ==
    IF cc.panic THEN cc
    ELSE CASE e.kind = "Integer" -> PushCode(cc, PPush("Int", e.int))
           [] e.kind = "String" -> PushCode(cc, PPushString(e.text))
           [] e.kind = "Id" -> PushCode(cc, PLoad(e.name))
           [] e.kind = "Scope" -> CompileEach(e.kids, 1, Len(e.kids), cc)
           [] e.kind = "Declaration" ->
                PushCode(CompileExpression(e.kids[1], cc), PStore(e.name, TRUE))
           [] e.kind = "Assignment" ->
                PushCode(CompileExpression(e.kids[1], cc), PStore(e.name, FALSE))
           [] e.kind = "Operation" ->
                IF e.kids = <<>> THEN [cc EXCEPT !.panic = TRUE]
                ELSE CompileTerms(e.name, e.kids, 2, CompileExpression(e.kids[1], cc))
           [] e.kind = "If" ->
                LET out == GetNewLabel(cc.label_generator)
                    c1 == CompileExpression(e.kids[1], [cc EXCEPT !.label_generator = out.next])
                    c2 == CompileExpression(e.kids[2], PushCode(c1, PIfeq(out.label)))
                IN  CloseIf(c2, out.label)
           [] e.kind = "IfElse" ->
                LET else == GetNewLabel(cc.label_generator)
                    out == GetNewLabel(else.next)
                    c1 == CompileExpression(e.kids[1], [cc EXCEPT !.label_generator = out.next])
                    c2 == CompileExpression(e.kids[2], PushCode(c1, PIfeq(else.label)))
                    c3 == EnterElse(c2, else.label, out.label)
                    c4 == CompileExpression(e.kids[3], c3)
                IN  PushCode(c4, PLabel(out.label))
           [] e.kind = "While" ->
                LET guard == GetNewLabel(cc.label_generator)
                    out == GetNewLabel(guard.next)
                    c0 == PushCode([cc EXCEPT !.label_generator = out.next], PLabel(guard.label))
                    c1 == CompileExpression(e.kids[1], c0)
                    c2 == CompileExpression(e.kids[2], PushCode(c1, PIfeq(out.label)))
                IN  CloseWhile(c2, guard.label, out.label)
           [] e.kind = "FunctionCall" ->
                IF e.kids[1].kind # "Id" \/ e.kids[1].name # "println"
                THEN [cc EXCEPT !.panic = TRUE]
                ELSE LET c1 == PushCode(cc, PGetstatic("java/lang/System", "out",
                                                       "Ljava/io/PrintStream;"))
                         c2 == CompileEach(e.kids, 2, Len(e.kids), c1)
                     IN  PushCode(c2, PInvokevirtual("java/io/PrintStream", "println",
                                                     "(Ljava/lang/String;)V"))
           [] OTHER -> [cc EXCEPT !.panic = TRUE]

CompileEach(es, lo, hi, cc) ==
    IF lo > hi THEN cc
    ELSE IF lo = hi THEN CompileExpression(es[lo], cc)
    ELSE LET mid == (lo + hi) \div 2
             first == CompileEach(es, lo, mid, cc)
         IN  IF first.panic THEN first ELSE CompileEach(es, mid + 1, hi, first)

\* An Operation arm that compiles all remaining terms first and pushes their
\* operators behind the last one.
CompileTermsOperatorsLast(operator, terms, k, cc) ==
    LET c == CompileEach(terms, k, Len(terms), cc)
    IN  IF c.panic THEN c
        ELSE [c EXCEPT !.code = c.code \o [i \in 1..(Len(terms) - k + 1) |->
                                              OperatorCode(operator)]]

CompileTerms(operator, terms, k, cc) ==
    IF k > Len(terms) THEN cc
    ELSE CompileTerms(operator, terms, k + 1,
                      PushCode(CompileExpression(terms[k], cc), OperatorCode(operator)))

\* compile(): the pool when a method's code is lowered, after the adds for
\* the class, its super class, the method's name and signature and "Code".
MethodPool ==
    LET c1 == AddClass(NewPool, "Main")
        c2 == AddClass(c1, "java/lang/Object")
        c3 == AddUtf8(c2, "main")
        c4 == AddUtf8(c3, "([Ljava/lang/String;)V")
    IN  AddUtf8(c4, "Code")

(***************************************************************************)
(* Lowering one pseudo-instruction list.  The lists are what CodeCompiler  *)
(* makes of up to MaxStmts statements, with pseudo-instructions that       *)
(* CodeCompiler never emits itself put between them.                       *)
(***************************************************************************)
Statement(e) == [ast |-> TRUE, e |-> e, raw |-> <<>>]
Raw(code) == [ast |-> FALSE, e |-> Unit, raw |-> code]

Stmts ==
    { Declaration("x", Integer(1)),
      Assignment("x", Integer(2)),
      Declaration("x", String("a")),
      Declaration("y", Id("x")),
      Assignment("y", Integer(1)),
      FunctionCall(Id("println"), <<Id("x")>>),
      If(Operation("Equality", <<Id("x"), Integer(1)>>), Assignment("x", Integer(2))),
      While(Operation("Inequality", <<Id("x"), Integer(2)>>),
            Assignment("x", Operation("Plus", <<Id("x"), Integer(1)>>))) }

Raws ==
    { <<PDrop("x")>>,
      <<PPush("Int", 1), PStore("x", TRUE), PPushString("a"), PStore("x", TRUE),
        PDrop("x")>>,
      <<PPush("Long", 1), PStore("y", TRUE)>>,
      <<PPush("Boolean", 1), PStore("x", TRUE)>>,
      <<PPushString("a"), PPush("Int", 1), Pseudo("Cmpeq")>>,
      <<PPush("Byte", 1), PPush("Int", 1), Pseudo("Add")>> }

Items == { Statement(e) : e \in Stmts } \cup { Raw(c) : c \in Raws }

\* The code of a list of items from position k on.
RECURSIVE CompileItems(_, _, _)
CompileItems(items, k, cc) ==
    IF k > Len(items) THEN cc
    ELSE CompileItems(items, k + 1,
            IF items[k].ast THEN CompileExpression(items[k].e, cc)
            ELSE IF cc.panic THEN cc
            ELSE [cc EXCEPT !.code = cc.code \o items[k].raw])

\* A to_bytecode that gives the method a label generator of its own
\* instead of the one of the CodeCompiler.
MethodCodeNewLabels(items) ==
    [PushCode(CompileItems(items, 1, NewCodeCompiler), Pseudo("Return"))
        EXCEPT !.label_generator = FirstLabel]

\* A to_bytecode that pushes no Return after the statements.
MethodCodeNoReturn(items) == CompileItems(items, 1, NewCodeCompiler)

\* to_bytecode up to the call of compile(): the code of the statements, then
\* Return, and the label generator handed on with it.
MethodCode(items) == PushCode(CompileItems(items, 1, NewCodeCompiler), Pseudo("Return"))

Programs == UNION { [1..n -> Items] : n \in 0..MaxStmts }

LowInit ==
    /\ pool = MethodPool.pool
    /\ next_index = MethodPool.next_index
    /\ order = MethodPool.order
    /\ log = <<>>
    /\ wr = Idle
    /\ slots = NewVariableStack
    /\ slog = <<>>
    /\ enc = NoEncoding
    /\ pipe = NoPipeline
    /\ \E items \in Programs :
          LET m == MethodCode(items)
          IN  /\ ~m.panic
              /\ low = [phase |-> "ready", code |-> m.code,
                        label_generator |-> m.label_generator,
                        instructions |-> <<>>, trace |-> <<>>,
                        variable_stack |-> NewVariableStack, operand_stack |-> <<>>]

\* compile_to_jvm_instructions(method.code, &mut method.label_generator,
\* &mut class_file.constant_pool) runs: it returns the instructions, or
\* panics at a todo!().
Lower ==
    /\ low.phase = "ready"
    /\ LET r == CompileToJvmInstructions(low.code, low.label_generator, ThisPool)
       IN  /\ low' = [low EXCEPT !.phase = IF r.panic THEN "panicked" ELSE "done",
                                 !.label_generator = r.label_generator,
                                 !.instructions = r.instructions,
                                 !.trace = r.trace,
                                 !.variable_stack = r.variable_stack,
                                 !.operand_stack = r.operand_stack]
           /\ pool' = r.cp.pool
           /\ next_index' = r.cp.next_index
           /\ order' = r.cp.order
    /\ UNCHANGED notLow

LowNext == Lower

SpecLower == LowInit /\ [][LowNext]_vars

\* The positions of low.code whose iteration completed.
Lowered == 1..Len(low.trace)

\* The position of low.code at which lowering panicked.
PanicAt == Len(low.trace) + 1

\* Two Int types are on top of an operand-type stack.
TwoIntsOnTop(stack) ==
    /\ Len(stack) >= 2
    /\ stack[Len(stack)] = "Int"
    /\ stack[Len(stack) - 1] = "Int"

\* The instructions the iteration at position k emitted.
EmittedAt(k) == SubSeq(low.instructions, low.trace[k].from + 1, low.trace[k].to)

\* The position of the marker of label l in a list of instructions.
MarkerOf(frag, l) == CHOOSE p \in 1..Len(frag) : frag[p].op = "Label" /\ frag[p].label = l

\* The runtime stack after the instructions frag[pc..] have run on `stack`,
\* by the semantics of bipush, goto, if_icmpeq and if_icmpne (the two
\* operands are popped, the branch is taken when they are equal, resp.
\* different).  The top of the stack is its last element.
RECURSIVE RunIdiom(_, _, _)
RunIdiom(frag, pc, stack) ==
    IF pc > Len(frag) THEN stack
    ELSE LET ins == frag[pc]
             n == Len(stack)
         IN  CASE ins.op = "Label" -> RunIdiom(frag, pc + 1, stack)
               [] ins.op = "Bipush" -> RunIdiom(frag, pc + 1, Append(stack, ins.arg))
               [] ins.op = "Goto" -> RunIdiom(frag, MarkerOf(frag, ins.label), stack)
               [] ins.op \in {"IfIcmpeq", "IfIcmpne"} ->
                     LET taken == IF ins.op = "IfIcmpeq" THEN stack[n - 1] = stack[n]
                                                         ELSE stack[n - 1] # stack[n]
                     IN  RunIdiom(frag, IF taken THEN MarkerOf(frag, ins.label) ELSE pc + 1,
                                  SubSeq(stack, 1, n - 2))

\* The values the two operands of a comparison take at run time.
RuntimeInts == {0, 1}

\* C8: a Cmpeq or Cmpne that lowering completes found two Int types on top of
\* the operand-type stack and left a single Int in their place; one that finds
\* two Int types on top completes; and the instructions it emits, run on any
\* two operands (equal: one branch outcome, different: the other), leave
\* exactly one value where the two operands were.
C8_CmpNetsOneInt ==
    low.phase \in {"done", "panicked"} =>
        /\ \A k \in Lowered :
              low.code[k].op \in {"Cmpeq", "Cmpne"} =>
                  LET before == low.trace[k].before
                  IN  /\ TwoIntsOnTop(before)
                      /\ low.trace[k].after =
                            Append(SubSeq(before, 1, Len(before) - 2), "Int")
                      /\ \A a \in RuntimeInts, b \in RuntimeInts :
                            Len(RunIdiom(EmittedAt(k), 1, <<a, b>>)) = 1
        /\ (low.phase = "panicked" /\ low.code[PanicAt].op \in {"Cmpeq", "Cmpne"})
              => ~TwoIntsOnTop(low.operand_stack)

\* A Cmpeq and a Cmpne were lowered in one run.
C8_Witness ==
    /\ low.phase = "done"
    /\ \E j \in Lowered, k \in Lowered : low.code[j].op = "Cmpeq" /\ low.code[k].op = "Cmpne"

\* The slot index in the instruction a Store or Load at position k emitted.
SlotAt(k) == low.instructions[low.trace[k].to].arg

\* The last position before j that declares name, 0 when there is none.
LastDeclaration(j, name) ==
    LET ds == {k \in 1..(j - 1) : low.code[k].op = "Store" /\ low.code[k].create
                                   /\ low.code[k].var = name}
    IN  IF ds = {} THEN 0 ELSE CHOOSE k \in ds : \A d \in ds : d <= k

\* name is declared before position j and not dropped since.
BoundBefore(j, name) ==
    /\ LastDeclaration(j, name) > 0
    /\ \A i \in (LastDeclaration(j, name) + 1)..(j - 1) :
          ~(low.code[i].op = "Drop" /\ low.code[i].var = name)

\* The code of `let x = 1 x = 2 println(x)`.
ScenarioCode ==
    MethodCode(<< Statement(Declaration("x", Integer(1))),
                  Statement(Assignment("x", Integer(2))),
                  Statement(FunctionCall(Id("println"), <<Id("x")>>)) >>).code

\* The positions of low.instructions holding instruction op.
PositionsOf(op) == {p \in 1..Len(low.instructions) : low.instructions[p].op = op}

\* C9: a lowered Store(name, true) emits a store to a slot no earlier Store or
\* Load used; a lowered Store(name, false) or Load(name) found name declared
\* and not dropped since (so Store(name, false) on an unbound name does not
\* complete) and uses the slot of that declaration; and lowering
\* `let x = 1 x = 2 println(x)` completes with one slot allocated, two Istore
\* and one Iload, all of that slot, the Iload before the Invokevirtual.
C9_StoreLoadSlots ==
    low.phase \in {"done", "panicked"} =>
        /\ \A k \in Lowered :
              low.code[k].op \in {"Store", "Load"} =>
                  IF low.code[k].op = "Store" /\ low.code[k].create
                  THEN /\ low.instructions[low.trace[k].to].op \in {"Istore", "Astore"}
                       /\ \A i \in 1..(k - 1) :
                             low.code[i].op \in {"Store", "Load"} => SlotAt(i) # SlotAt(k)
                  ELSE /\ BoundBefore(k, low.code[k].var)
                       /\ SlotAt(k) = SlotAt(LastDeclaration(k, low.code[k].var))
        /\ low.code = ScenarioCode =>
              /\ low.phase = "done"
              /\ low.variable_stack.next_index = 1
              /\ Cardinality(PositionsOf("Istore")) = 2
              /\ Cardinality(PositionsOf("Iload")) = 1
              /\ \A p \in PositionsOf("Istore") \cup PositionsOf("Iload") :
                    low.instructions[p].arg = VsGet(low.variable_stack, "x").index
              /\ \A p \in PositionsOf("Iload"), q \in PositionsOf("Invokevirtual") : p < q
              /\ PositionsOf("Invokevirtual") # {}

\* `let x = 1 x = 2 println(x)` has been lowered.
C9_Witness == low.phase = "done" /\ low.code = ScenarioCode

(***************************************************************************)
(* The ClassFile that compile() builds (src/src/jvm/compiler.rs).          *)
(***************************************************************************)
\* ClassFile::new: magic 0xCAFEBABE as its four bytes, the versions, and
\* ClassAccessFlags::Public | Super.
MagicBytes == <<202, 254, 186, 190>>
MinorVersion == 0
MajorVersion == 52
ClassFlags == 33

\* Method::default: MethodAccessFlags::Public | Static.
MethodFlags == 9

\* compile(): the max_stack and max_locals of every Code attribute.
MaxStack == 10
MaxLocals == 10

\* compile(): the indices its pool adds return, in the order it makes them.
ClassIndices ==
    LET c1 == AddClass(NewPool, "Main")
        c2 == AddClass(c1, "java/lang/Object")
        c3 == AddUtf8(c2, "main")
        c4 == AddUtf8(c3, "([Ljava/lang/String;)V")
        c5 == AddUtf8(c4, "Code")
    IN  [this_class |-> c1.ret, super_class |-> c2.ret, name_index |-> c3.ret,
         descriptor_index |-> c4.ret, code_name_index |-> c5.ret]

\* From<CodeAttribute> for GenericAttribute, for a Code attribute without
\* attributes of its own.
CodeAttribute(name_index, code) ==
    [name_index |-> name_index,
     info |-> U16Bytes(MaxStack) \o U16Bytes(MaxLocals) \o U32Bytes(Len(code)) \o code
                 \o U16Bytes(0) \o U16Bytes(0)]

\* ClassFile::new, before compile() fills it in.
NewClassFile ==
    [magic |-> MagicBytes, minor_version |-> MinorVersion, major_version |-> MajorVersion,
     access_flags |-> ClassFlags, this_class |-> 0, super_class |-> 0,
     methods |-> <<>>, attributes |-> <<>>]

\* A compile() that leaves the indices of the class as ClassFile::new set
\* them.
CompiledClassFileUnset(code) ==
    [NewClassFile EXCEPT
        !.methods = << [access_flags |-> MethodFlags,
                        name_index |-> ClassIndices.name_index,
                        descriptor_index |-> ClassIndices.descriptor_index,
                        attributes |-> <<CodeAttribute(ClassIndices.code_name_index, code)>>] >>]

\* compile() of the class to_bytecode passes it: class Main with the one
\* method main, whose code attribute holds the encoded bytes.
CompiledClassFile(code) ==
    [NewClassFile EXCEPT
        !.this_class = ClassIndices.this_class,
        !.super_class = ClassIndices.super_class,
        !.methods = << [access_flags |-> MethodFlags,
                        name_index |-> ClassIndices.name_index,
                        descriptor_index |-> ClassIndices.descriptor_index,
                        attributes |-> <<CodeAttribute(ClassIndices.code_name_index, code)>>] >>]

(***************************************************************************)
(* to_bytecode (src/src/jvm/compiler.rs): the statements of main are       *)
(* compiled, compile() lowers and encodes them, and write_to_file creates  *)
(* Main.class and writes the class file field by field.                    *)
(***************************************************************************)
\* A to_bytecode that opens the output file before it compiles.
StageAfterCreateFirst(stage) ==
    CASE stage = "start" -> "create"
      [] stage = "create" -> "compile"
      [] stage = "compile" -> "lower"
      [] stage = "lower" -> "encode"
      [] stage = "encode" -> "write"
      [] stage = "write" -> "end"

\* The order of the steps of to_bytecode: compile_expression over the
\* statements, compile() (lowering, then encoding), then write_to_file
\* (File::create, then the writes).
StageAfter(stage) ==
    CASE stage = "start" -> "compile"
      [] stage = "compile" -> "lower"
      [] stage = "lower" -> "encode"
      [] stage = "encode" -> "create"
      [] stage = "create" -> "write"
      [] stage = "write" -> "end"

\* A write_to_file that writes the access flags before the constant pool.
ChunksFlagsFirst ==
    << "magic", "minor_version", "major_version", "access_flags",
       "constant_pool_count", "constant_pool", "this_class", "super_class",
       "interfaces_count", "fields_count", "methods_count", "methods",
       "attributes_count", "attributes" >>

\* The steps of ClassFile::write_to_file, in order; each ends in `?`.
Chunks ==
    << "magic", "minor_version", "major_version", "constant_pool_count",
       "constant_pool", "access_flags", "this_class", "super_class",
       "interfaces_count", "fields_count", "methods_count", "methods",
       "attributes_count", "attributes" >>

\* One write to the file: the field it is, and the bytes (for a Utf8 pool
\* entry, its text after the tag and length).
FileRec(field, bytes) == [field |-> field, bytes |-> bytes, text |-> ""]

RECURSIVE Flatten(_)
Flatten(seqs) == IF seqs = <<>> THEN <<>> ELSE Head(seqs) \o Flatten(Tail(seqs))

\* The three writes of one attribute record.
AttributeRecs(attribute) ==
    << FileRec("attribute_name_index", U16Bytes(attribute.name_index)),
       FileRec("attribute_length", U32Bytes(Len(attribute.info))),
       FileRec("attribute_info", attribute.info) >>

\* The writes of one iteration of `for method in &self.methods`.
MethodRecs(method) ==
    << FileRec("method_access_flags", U16Bytes(method.access_flags)),
       FileRec("method_name_index", U16Bytes(method.name_index)),
       FileRec("method_descriptor_index", U16Bytes(method.descriptor_index)),
       FileRec("method_attributes_count", U16Bytes(Len(method.attributes))) >>
    \o Flatten([k \in 1..Len(method.attributes) |-> AttributeRecs(method.attributes[k])])

\* The second loop of ConstantPool::write_to_file over the table.
PoolRecs(table) ==
    [k \in 1..Len(table) |->
        LET e == EntryBytes(table[k])
        IN  [field |-> "constant_pool_entry", bytes |-> <<e.tag>> \o e.bytes,
             text |-> e.text]]

\* What one step of write_to_file writes, for the class file cf with the
\* pool cp whose hash map iterates in the order iter.
WriteRecs(chunk, cf, cp, iter) ==
    CASE chunk = "magic" -> <<FileRec(chunk, cf.magic)>>
      [] chunk = "minor_version" -> <<FileRec(chunk, U16Bytes(cf.minor_version))>>
      [] chunk = "major_version" -> <<FileRec(chunk, U16Bytes(cf.major_version))>>
      [] chunk = "constant_pool_count" -> <<FileRec(chunk, U16Bytes(PoolLen(cp) + 1))>>
      [] chunk = "constant_pool" -> PoolRecs(PoolTable(cp, iter).table)
      [] chunk = "access_flags" -> <<FileRec(chunk, U16Bytes(cf.access_flags))>>
      [] chunk = "this_class" -> <<FileRec(chunk, U16Bytes(cf.this_class))>>
      [] chunk = "super_class" -> <<FileRec(chunk, U16Bytes(cf.super_class))>>
      [] chunk = "interfaces_count" -> <<FileRec(chunk, U16Bytes(0))>>
      [] chunk = "fields_count" -> <<FileRec(chunk, U16Bytes(0))>>
      [] chunk = "methods_count" -> <<FileRec(chunk, U16Bytes(Len(cf.methods)))>>
      [] chunk = "methods" ->
            Flatten([k \in 1..Len(cf.methods) |-> MethodRecs(cf.methods[k])])
      [] chunk = "attributes_count" -> <<FileRec(chunk, U16Bytes(Len(cf.attributes)))>>
      [] chunk = "attributes" ->
            Flatten([k \in 1..Len(cf.attributes) |-> AttributeRecs(cf.attributes[k])])

\* The statements of the programs given to to_bytecode.
PipeStmts ==
    { Declaration("x", Integer(1)),
      Assignment("x", Integer(2)),
      Declaration("x", String("a")),
      FunctionCall(Id("println"), <<Id("x")>>),
      FunctionCall(Id("foo"), <<Integer(1)>>),
      Operation("Plus", <<Id("x"), Integer(1)>>),
      Operation("Plus", <<Integer(1)>>),
      Operation("Equality", <<Integer(1), Integer(2), Integer(1)>>),
      Operation("Inequality", <<Integer(1), Operation("Plus", <<Integer(1), Integer(2)>>)>>),
      If(Operation("Equality", <<Id("x"), Integer(1)>>), Assignment("y", Integer(1))),
      Unit,
      FunctionCall(Id("println"), <<Integer(1)>>),
      If(Operation("Equality", <<Integer(1), Integer(1)>>),
         FunctionCall(Id("println"), <<Integer(1)>>)),
      While(Operation("Equality", <<Integer(1), Integer(2)>>),
            FunctionCall(Id("println"), <<Integer(1)>>)),
      IfElse(Operation("Inequality", <<Id("x"), Integer(1)>>),
             Assignment("x", Integer(2)),
             FunctionCall(Id("println"), <<Id("x")>>)),
      While(Operation("Inequality", <<Id("x"), Integer(2)>>),
            If(Operation("Equality", <<Id("x"), Integer(1)>>),
               IfElse(Id("x"), Scope(<<>>), Assignment("x", Integer(2))))) }

\* A block of n calls of println(1): 8n bytes of code.
LongBlock(n) == Scope([k \in 1..n |-> FunctionCall(Id("println"), <<Integer(1)>>)])

\* A loop over a long block.
LongWhile(n) == << While(Operation("Equality", <<Integer(1), Integer(2)>>), LongBlock(n)) >>

\* A conditional whose base case is a long block.
LongIfElse(n) ==
    << IfElse(Operation("Equality", <<Integer(1), Integer(2)>>), LongBlock(n),
              FunctionCall(Id("println"), <<Integer(1)>>)) >>

\* One declaration more than the Code attribute declares locals.
ManyLets == [k \in 1..(MaxLocals + 1) |-> Declaration("x", Integer(1))]

LongPrograms == {LongWhile(LongBodyLen), LongIfElse(LongBodyLen), ManyLets}

PipePrograms == (UNION { [1..n -> PipeStmts] : n \in 0..MaxStmts }) \cup LongPrograms

PipeInit ==
    /\ pool = NewPool.pool
    /\ next_index = NewPool.next_index
    /\ order = NewPool.order
    /\ log = <<>>
    /\ wr = Idle
    /\ slots = NewVariableStack
    /\ slog = <<>>
    /\ low = NoLowering
    /\ enc = NoEncoding
    /\ \E program \in PipePrograms :
          pipe = [pc |-> StageAfter("start"), program |-> program, code |-> <<>>,
                  label_generator |-> FirstLabel, instructions |-> <<>>,
                  bytecode |-> <<>>, starts |-> <<>>, file |-> "absent", written |-> <<>>,
                  io_failed |-> FALSE, result |-> "running", panic_in |-> "",
                  class_file |-> NewClassFile, done |-> 0, round |-> 1,
                  first |-> <<>>,
                  entry |-> [taken |-> FALSE, class_file |-> NewClassFile,
                             cp |-> NewPool]]

\* The process aborts in the step it is in.
Abort(p) == [p EXCEPT !.pc = "end", !.result = "panic", !.panic_in = p.pc]

\* to_bytecode lines 327-334: the statements are compiled and Return pushed.
PipeCompile ==
    /\ pipe.pc = "compile"
    /\ LET m == MethodCode([k \in 1..Len(pipe.program) |-> Statement(pipe.program[k])])
       IN  pipe' = IF m.panic THEN Abort(pipe)
                   ELSE [pipe EXCEPT !.pc = StageAfter("compile"), !.code = m.code,
                                     !.label_generator = m.label_generator]
    /\ UNCHANGED <<pool, next_index, order, notPipe>>

\* compile(): the pool adds of the class and the method, then
\* compile_to_jvm_instructions.
PipeLower ==
    /\ pipe.pc = "lower"
    /\ LET r == CompileToJvmInstructions(pipe.code, pipe.label_generator, MethodPool)
       IN  /\ pipe' = IF r.panic THEN Abort(pipe)
                      ELSE [pipe EXCEPT !.pc = StageAfter("lower"),
                                        !.instructions = r.instructions,
                                        !.label_generator = r.label_generator]
           /\ pool' = r.cp.pool
           /\ next_index' = r.cp.next_index
           /\ order' = r.cp.order
    /\ UNCHANGED notPipe

\* compile(): compile_instructions on the lowered instructions.
PipeEncode ==
    /\ pipe.pc = "encode"
    /\ LET r == CompileInstructions(pipe.instructions, ThisPool)
       IN  pipe' = IF r.panic THEN Abort(pipe)
                   ELSE [pipe EXCEPT !.pc = StageAfter("encode"), !.bytecode = r.bytecode,
                                     !.starts = r.starts,
                                     !.class_file = CompiledClassFile(r.bytecode),
                                     !.entry = [taken |-> TRUE,
                                                class_file |-> CompiledClassFile(r.bytecode),
                                                cp |-> ThisPool]]
    /\ UNCHANGED <<pool, next_index, order, notPipe>>

\* write_to_file: File::create("Main.class").unwrap() finds the file created.
PipeCreate ==
    /\ pipe.pc = "create"
    /\ pipe' = [pipe EXCEPT !.pc = StageAfter("create"), !.file = "created"]
    /\ UNCHANGED <<pool, next_index, order, notPipe>>

\* write_to_file: File::create fails, and unwrap() panics on the error.
PipeCreateFails ==
    /\ pipe.pc = "create"
    /\ pipe' = [Abort(pipe) EXCEPT !.io_failed = TRUE]
    /\ UNCHANGED <<pool, next_index, order, notPipe>>

\* write_to_file: the next step succeeds; after the last one Ok(()) is
\* returned through to_bytecode. The step that writes the pool panics when
\* an index falls outside the table.
PipeWrite ==
    /\ pipe.pc = "write"
    /\ \E iter \in IterationOrders(ThisPool) :
          LET chunk == Chunks[pipe.done + 1]
              written == pipe.written \o WriteRecs(chunk, pipe.class_file, ThisPool, iter)
          IN  pipe' = IF chunk = "constant_pool" /\ PoolTable(ThisPool, iter).panic
                      THEN Abort(pipe)
                      ELSE IF pipe.done + 1 = Len(Chunks)
                      THEN [pipe EXCEPT !.written = written, !.done = @ + 1,
                                        !.pc = StageAfter("write"), !.result = "ok"]
                      ELSE [pipe EXCEPT !.written = written, !.done = @ + 1]
    /\ UNCHANGED <<pool, next_index, order, notPipe>>

\* The holder of the ClassFile calls write_to_file on it once more; the
\* output of the first call is kept for comparison.
PipeWriteAgain ==
    /\ pipe.pc = "end"
    /\ pipe.result = "ok"
    /\ pipe.round < MaxWrites
    /\ pipe' = [pipe EXCEPT !.pc = "create", !.result = "running", !.done = 0,
                            !.written = <<>>, !.round = @ + 1,
                            !.first = IF pipe.round = 1 THEN pipe.written ELSE @]
    /\ UNCHANGED <<pool, next_index, order, notPipe>>

\* write_to_file: the next write fails; `?` returns the error, and the `?` of
\* to_bytecode returns it to the caller.
PipeWriteFails ==
    /\ pipe.pc = "write"
    /\ pipe' = [pipe EXCEPT !.pc = "end", !.result = "err", !.io_failed = TRUE]
    /\ UNCHANGED <<pool, next_index, order, notPipe>>

PipeNext ==
    \/ PipeCompile
    \/ PipeLower
    \/ PipeEncode
    \/ PipeCreate
    \/ PipeCreateFails
    \/ PipeWrite
    \/ PipeWriteFails
    \/ PipeWriteAgain

SpecPipe == PipeInit /\ [][PipeNext]_vars

\* The program calls a function other than println.
CallsUnknownFunction ==
    \E k \in 1..Len(pipe.program) :
        /\ pipe.program[k].kind = "FunctionCall"
        /\ pipe.program[k].kids[1].name # "println"

\* C6: while to_bytecode is compiling, lowering or encoding, and when it has
\* aborted in one of these steps, no output file has been created and nothing
\* has been written; and a program that calls a function other than println
\* ends in an abort of the compile step, with no output file.
C6_NoFileWhenAborted ==
    /\ (pipe.pc \in {"compile", "lower", "encode"}
           \/ pipe.panic_in \in {"compile", "lower", "encode"})
          => (pipe.file = "absent" /\ pipe.written = <<>>)
    /\ (CallsUnknownFunction /\ pipe.pc = "end")
          => (pipe.result = "panic" /\ pipe.panic_in = "compile" /\ pipe.file = "absent")

\* A program calling foo has aborted, and no file exists.
C6_Witness ==
    /\ CallsUnknownFunction
    /\ pipe.result = "panic"
    /\ pipe.file = "absent"

\* C7: a run of to_bytecode in which an I/O operation on the output file
\* failed (its creation or one of the writes) does not abort the process: it
\* ends by returning the error.
C7_IoFailureReturned ==
    pipe.io_failed => (pipe.result = "err" /\ pipe.panic_in = "")

\* The statements of the program as to_bytecode compiles them.
PipeItems == [k \in 1..Len(pipe.program) |-> Statement(pipe.program[k])]

\* The CodeCompiler after the first k statements of the program.
CompiledUpTo(k) == CompileItems(SubSeq(PipeItems, 1, k), 1, NewCodeCompiler)

\* to_bytecode has compiled the statements: pipe.code holds their code.
Compiled == pipe.pc # "compile" /\ pipe.panic_in # "compile"

\* The part of pipe.code that statement k appended.
NodeCode(k) ==
    SubSeq(pipe.code, Len(CompiledUpTo(k - 1).code) + 1, Len(CompiledUpTo(k).code))

\* What compiling e appends to the code of cc.
Appended(e, cc) ==
    LET r == CompileExpression(e, cc)
    IN  SubSeq(r.code, Len(cc.code) + 1, Len(r.code))

\* The labels a list of pseudo-instructions marks or branches to.
LabelsIn(code) ==
    {code[i].label : i \in {j \in 1..Len(code) :
                               code[j].op \in {"Label", "Goto", "Ifeq", "Ifne"}}}

\* The positions of a list of pseudo-instructions holding op.
PseudoPositions(code, op) == {i \in 1..Len(code) : code[i].op = op}

\* The code of `if (== 1 1) println(1)`.
IfScenario ==
    << If(Operation("Equality", <<Integer(1), Integer(1)>>),
          FunctionCall(Id("println"), <<Integer(1)>>)) >>

\* C11: the code an If statement appended is the guard's code, Ifeq(L), the
\* base case's code, Label(L), where L is the label the generator issued at
\* the start of the node and occurs neither before the node nor in the
\* guard's or the base case's code; the node adds no Goto of its own; and
\* `if (== 1 1) println(1)` compiles to code with exactly one Ifeq, exactly
\* one Label, which is the last instruction before Return, and no Goto.
C11_IfShape ==
    Compiled =>
        /\ \A k \in 1..Len(pipe.program) :
              pipe.program[k].kind = "If" =>
                  LET b == CompiledUpTo(k - 1)
                      L == b.label_generator
                      g == CompileExpression(pipe.program[k].kids[1],
                                             [b EXCEPT !.label_generator = L + 1])
                      G == Appended(pipe.program[k].kids[1],
                                    [b EXCEPT !.label_generator = L + 1])
                      B == Appended(pipe.program[k].kids[2], g)
                  IN  /\ NodeCode(k) = G \o <<PIfeq(L)>> \o B \o <<PLabel(L)>>
                      /\ L \notin LabelsIn(b.code) \cup LabelsIn(G) \cup LabelsIn(B)
                      /\ Cardinality(PseudoPositions(NodeCode(k), "Goto")) =
                            Cardinality(PseudoPositions(G, "Goto"))
                            + Cardinality(PseudoPositions(B, "Goto"))
        /\ pipe.program = IfScenario =>
              /\ Cardinality(PseudoPositions(pipe.code, "Ifeq")) = 1
              /\ PseudoPositions(pipe.code, "Label") = {Len(pipe.code) - 1}
              /\ PseudoPositions(pipe.code, "Goto") = {}
              /\ pipe.code[Len(pipe.code)].op = "Return"

\* `if (== 1 1) println(1)` has been compiled.
C11_Witness == Compiled /\ pipe.program = IfScenario

\* compile() has returned: pipe.instructions and pipe.bytecode hold the
\* lowered and the encoded method body.
Encoded ==
    /\ pipe.pc \in {"create", "write", "end"}
    /\ pipe.panic_in \notin {"compile", "lower", "encode"}

\* The positions of pipe.instructions holding instruction op with label l.
InsPositions(op, l) ==
    {p \in 1..Len(pipe.instructions) :
        pipe.instructions[p].op = op /\ pipe.instructions[p].label = l}

\* The 16-bit operand in the bytes of the branch at position p of
\* pipe.instructions.
OperandAt(p) ==
    DecodeI16(pipe.bytecode[pipe.starts[p] + 2], pipe.bytecode[pipe.starts[p] + 3])

\* The byte offset of the marker of label l in the encoded method body.
MarkerOffset(l) == pipe.starts[CHOOSE p \in InsPositions("Label", l) : TRUE]

\* C12: the code a While statement appended is Label(Lguard), the guard's
\* code, Ifeq(Lend), the body's code, Goto(Lguard), Label(Lend), with Lguard
\* and Lend two different labels issued at the start of the node and used
\* nowhere else; and in the encoded method body the operand of that Goto is
\* negative and leads to the offset of Lguard's marker, where the guard
\* starts, while the operand of that Ifeq is positive.
C12_WhileShape ==
    \A k \in 1..Len(pipe.program) :
        pipe.program[k].kind = "While" =>
            LET b == CompiledUpTo(k - 1)
                Lguard == b.label_generator
                Lend == Lguard + 1
                start == [b EXCEPT !.label_generator = Lend + 1,
                                   !.code = Append(b.code, PLabel(Lguard))]
                g == CompileExpression(pipe.program[k].kids[1], start)
                G == Appended(pipe.program[k].kids[1], start)
                B == Appended(pipe.program[k].kids[2], g)
            IN  /\ Compiled =>
                      /\ NodeCode(k) = <<PLabel(Lguard)>> \o G \o <<PIfeq(Lend)>> \o B
                                          \o <<PGoto(Lguard), PLabel(Lend)>>
                      /\ {Lguard, Lend} \cap (LabelsIn(b.code) \cup LabelsIn(G)
                                                \cup LabelsIn(B)) = {}
                /\ Encoded =>
                      /\ Cardinality(InsPositions("Goto", Lguard)) = 1
                      /\ Cardinality(InsPositions("Ifeq", Lend)) = 1
                      /\ \A p \in InsPositions("Goto", Lguard) :
                            /\ OperandAt(p) < 0
                            /\ pipe.starts[p] + OperandAt(p) = MarkerOffset(Lguard)
                      /\ \A q \in InsPositions("Ifeq", Lend) : OperandAt(q) > 0

\* The code of `println(1)`.
PrintlnScenario == << FunctionCall(Id("println"), <<Integer(1)>>) >>

\* The positions of the compiled code that push the integer literal 1.
PushesOfOne == {i \in 1..Len(pipe.code) : pipe.code[i] = PPush("Int", 1)}

\* The entries the pool was given for the integer 1, in insertion order.
EntriesOfOne == {i \in 1..Len(order) : order[i] = IntegerItem(1)}

\* The pool entry with index k refers to class, name and descriptor texts.
IsMemberRef(k, tag, class, name, descriptor) ==
    /\ k \in 1..Len(order)
    /\ order[k].tag = tag
    /\ order[order[k].a] = ClassRefItem(pool[Utf8Item(class)])
    /\ order[order[k].b] = NameAndTypeItem(pool[Utf8Item(name)], pool[Utf8Item(descriptor)])

\* C13: for `println(1)` the lowered method body is Getstatic of the pool's
\* FieldRef of java/lang/System.out, Ldc of the index of the pool's Integer 1,
\* Invokevirtual of the pool's MethodRef of PrintStream.println, Return, and
\* its bytes are these four instructions; and for every program the pool was
\* given exactly one Integer 1 entry when the literal 1 is pushed at least
\* once, however often.
C13_PrintlnBody ==
    Encoded =>
        /\ pipe.program = PrintlnScenario =>
              /\ Len(pipe.instructions) = 4
              /\ pipe.instructions[1] = InsResolved("Getstatic", pipe.instructions[1].arg)
              /\ IsMemberRef(pipe.instructions[1].arg, "FieldRef", "java/lang/System",
                             "out", "Ljava/io/PrintStream;")
              /\ pipe.instructions[2] = InsResolved("Ldc", pool[IntegerItem(1)])
              /\ pipe.instructions[3] = InsResolved("Invokevirtual", pipe.instructions[3].arg)
              /\ IsMemberRef(pipe.instructions[3].arg, "MethodRef", "java/io/PrintStream",
                             "println", "(Ljava/lang/String;)V")
              /\ pipe.instructions[4] = Ins("Return", 0, 0)
              /\ pipe.bytecode = <<178>> \o U16Bytes(pipe.instructions[1].arg)
                                    \o <<18, pool[IntegerItem(1)]>>
                                    \o <<182>> \o U16Bytes(pipe.instructions[3].arg)
                                    \o <<177>>
        /\ PushesOfOne # {} => Cardinality(EntriesOfOne) = 1

\* `println(1)` has been compiled to bytes.
C13_Witness ==
    /\ Encoded
    /\ pipe.program = PrintlnScenario

\* The pool entry with index k is the Utf8 entry of this text.
IsUtf8(k, text) == k \in 1..Len(order) /\ order[k] = Utf8Item(text)

\* C14: the class file compile() returns holds two methods, the public static
\* main and a constructor.
C14_TwoMethods ==
    Encoded =>
        /\ Len(pipe.class_file.methods) = 2
        /\ \E m \in 1..Len(pipe.class_file.methods) :
              /\ pipe.class_file.methods[m].access_flags = MethodFlags
              /\ IsUtf8(pipe.class_file.methods[m].name_index, "main")

\* The fields of the writes made so far, in the order they were made.
FieldsWritten == [k \in 1..Len(pipe.written) |-> pipe.written[k].field]

\* The fields of a whole class file with n pool entries, one name for each
\* write, in the order the format gives them.
FieldsOfAttributes(attributes) ==
    Flatten([k \in 1..Len(attributes) |->
                <<"attribute_name_index", "attribute_length", "attribute_info">>])

FieldsOfClassFile(cf, n) ==
    << "magic", "minor_version", "major_version", "constant_pool_count" >>
    \o [k \in 1..n |-> "constant_pool_entry"]
    \o << "access_flags", "this_class", "super_class", "interfaces_count",
          "fields_count", "methods_count" >>
    \o Flatten([k \in 1..Len(cf.methods) |->
                  << "method_access_flags", "method_name_index",
                     "method_descriptor_index", "method_attributes_count" >>
                  \o FieldsOfAttributes(cf.methods[k].attributes)])
    \o << "attributes_count" >>
    \o FieldsOfAttributes(cf.attributes)

\* C15: at every moment of write_to_file the writes made so far are the
\* beginning of the fixed sequence magic, minor version, major version, pool
\* count, pool entries, access flags, this-class, super-class, interface
\* count, field count, method count, method records, class attribute count,
\* class attributes, and after Ok(()) they are the whole of it; the magic is
\* CA FE BA BE, the pool count is len() + 1, the interface and field counts
\* are 0, the method count is the number of methods, and every attribute is
\* its name index, then the 4-byte big-endian count of the info bytes
\* written right after it.
C15_FieldOrder ==
    pipe.pc \in {"write", "end"} =>
       LET expected == FieldsOfClassFile(pipe.class_file, Len(order))
           n == Len(pipe.written)
       IN  /\ n <= Len(expected)
           /\ FieldsWritten = SubSeq(expected, 1, n)
           /\ pipe.result = "ok" => n = Len(expected)
           /\ \A k \in 1..n :
                 LET w == pipe.written[k]
                 IN  /\ w.field = "magic" => w.bytes = <<202, 254, 186, 190>>
                     /\ w.field = "constant_pool_count" =>
                           w.bytes = U16Bytes(Cardinality(DOMAIN pool) + 1)
                     /\ w.field \in {"interfaces_count", "fields_count"} =>
                           w.bytes = <<0, 0>>
                     /\ w.field = "methods_count" =>
                           w.bytes = U16Bytes(Len(pipe.class_file.methods))
                     /\ w.field = "attribute_length" =>
                           /\ k < n
                           /\ pipe.written[k - 1].field = "attribute_name_index"
                           /\ pipe.written[k + 1].field = "attribute_info"
                           /\ w.bytes = U32Bytes(Len(pipe.written[k + 1].bytes))

\* A class file with a method whose code is more than the lone return has
\* been written to the end.
C15_Witness ==
    /\ pipe.pc = "end"
    /\ pipe.result = "ok"
    /\ Len(pipe.bytecode) > 1
    /\ \E k \in 1..Len(pipe.written) :
          /\ pipe.written[k].field = "attribute_length"
          /\ pipe.written[k].bytes = U32Bytes(Len(pipe.bytecode) + 12)

\* C16: write_to_file leaves the ClassFile and its pool as they were when it
\* was entered, and a second call on the same ClassFile that returns Ok(())
\* has written what the first one wrote, whichever order the hash map
\* yielded its entries in.
C16_SameBytesTwice ==
    /\ pipe.entry.taken =>
          /\ pipe.class_file = pipe.entry.class_file
          /\ ThisPool = pipe.entry.cp
    /\ (pipe.round = 2 /\ pipe.result = "ok") => pipe.written = pipe.first

\* A second write_to_file of a class with println(1) has returned Ok(()).
C16_Witness ==
    /\ pipe.round = 2
    /\ pipe.result = "ok"
    /\ pipe.first # <<>>
    /\ Len(order) > 5

\* C17: a second compile_instructions on the same instruction list returns
\* the bytes the first one returned, whether it is given the constant pool
\* the first call left or a pool equal to the one the first call was given.
C17_EncodingRepeats ==
    enc.phase = "twice" =>
       /\ ~enc.second.panic
       /\ enc.second.bytecode = enc.bytecode

\* A list with an Ldc and an Invokevirtual, which both add to the pool, has
\* been encoded a second time against the pool the first encoding left.
C17_Witness ==
    /\ enc.phase = "twice"
    /\ enc.against = "left"
    /\ \E p \in 1..Len(enc.code) : enc.code[p].op = "Ldc"
    /\ \E q \in 1..Len(enc.code) : enc.code[q].op = "Invokevirtual"

\* The labels that have a marker in the list given to the encoder.
MarkedLabels == { enc.code[q].label : q \in { r \in 1..Len(enc.code) : enc.code[r].op = "Label" } }

\* A Goto or conditional branch of the list names a label without a marker.
HasDanglingBranch ==
    LET marked == MarkedLabels
    IN  \E p \in 1..Len(enc.code) :
           /\ enc.code[p].op \in {"Goto", "Ifeq", "Ifne", "IfIcmpeq", "IfIcmpne"}
           /\ enc.code[p].label \notin marked

\* C18: once compile_instructions has run on a list in which a Goto or a
\* conditional branch names a label that no Label marker of the list
\* carries, it has panicked and no bytes have been returned, neither at the
\* first call nor at a later one.
C18_DanglingLabelIsFatal ==
    (enc.phase # "ready" /\ HasDanglingBranch) =>
       /\ enc.phase = "panicked"
       /\ enc.bytecode = <<>>
       /\ enc.second.bytecode = <<>>

\* The encoder has panicked on a list whose first instruction emits a byte
\* and whose later branch names a label without a marker.
C18_Witness ==
    /\ enc.phase = "panicked"
    /\ HasDanglingBranch
    /\ Len(enc.code) > 1
    /\ enc.code[1].op = "Iadd"

\* The position of the Getstatic that opens the call the Invokevirtual at
\* position q of low.code closes.
CallStart(q) ==
    CHOOSE p \in 1..q : /\ low.code[p].op = "Getstatic"
                        /\ \A r \in (p + 1)..q : low.code[r].op # "Getstatic"

\* C19: when lowering has passed the Invokevirtual of a `println(arg)` call,
\* the operand-type stack is as deep as it was before the Getstatic of that
\* call was lowered.
C19_CallLeavesDepth ==
    \A q \in Lowered :
       low.code[q].op = "Invokevirtual" =>
          Len(low.trace[q].after) = Len(low.trace[CallStart(q)].before)

\* C20: the code an IfElse statement appended is the guard's code,
\* Ifeq(Lelse), the base case's code, Goto(Lend), Label(Lelse), the else
\* case's code, Label(Lend), with Lelse and Lend two different labels issued
\* at the start of the node and used nowhere else; and in the encoded method
\* body the operand of that Ifeq leads to the instruction that follows the
\* marker of Lelse, where the else case starts, and the operand of that Goto
\* leads to the marker of Lend, behind the else case.
C20_IfElseShape ==
    \A k \in 1..Len(pipe.program) :
        pipe.program[k].kind = "IfElse" =>
            LET b == CompiledUpTo(k - 1)
                Lelse == b.label_generator
                Lend == Lelse + 1
                start == [b EXCEPT !.label_generator = Lend + 1]
                g == CompileExpression(pipe.program[k].kids[1], start)
                G == Appended(pipe.program[k].kids[1], start)
                bs == CompileExpression(pipe.program[k].kids[2], g)
                B == Appended(pipe.program[k].kids[2], g)
                A == Appended(pipe.program[k].kids[3],
                              [bs EXCEPT !.code = bs.code \o <<PGoto(Lend), PLabel(Lelse)>>])
            IN  /\ Compiled =>
                      /\ NodeCode(k) = G \o <<PIfeq(Lelse)>> \o B
                                          \o <<PGoto(Lend), PLabel(Lelse)>> \o A
                                          \o <<PLabel(Lend)>>
                      /\ {Lelse, Lend} \cap (LabelsIn(b.code) \cup LabelsIn(G)
                                               \cup LabelsIn(B) \cup LabelsIn(A)) = {}
                /\ Encoded =>
                      /\ Cardinality(InsPositions("Ifeq", Lelse)) = 1
                      /\ Cardinality(InsPositions("Goto", Lend)) = 1
                      /\ \A q \in InsPositions("Ifeq", Lelse), m \in InsPositions("Label", Lelse) :
                            pipe.starts[q] + OperandAt(q) = pipe.starts[m + 1]
                      /\ \A p \in InsPositions("Goto", Lend) :
                            /\ pipe.starts[p] + OperandAt(p) = MarkerOffset(Lend)
                            /\ MarkerOffset(Lend) >= MarkerOffset(Lelse)

\* The number of bytes the emission pass wrote for the instruction at
\* position p of the list given to the encoder.
BytesWrittenFor(p) ==
    (IF p = Len(enc.code) THEN Len(enc.bytecode) ELSE enc.starts[p + 1]) - enc.starts[p]

\* C21: in a finished encoding, the bytes written for every instruction are
\* as many as Instruction::len gives for it (0 for a Label, 1, 2 or 3 for the
\* others, Ldc in either form included), and the offset scan_for_labels
\* recorded for a label is the number of bytes written before its marker
\* (the last one, when a label is marked more than once).
C21_LenMatchesBytes ==
    enc.phase = "done" =>
        \A p \in 1..Len(enc.code) :
            /\ BytesWrittenFor(p) = InstructionLen(enc.code[p])
            /\ (enc.code[p].op = "Label"
                  /\ \A q \in (p + 1)..Len(enc.code) :
                        ~(enc.code[q].op = "Label" /\ enc.code[q].label = enc.code[p].label))
                  => enc.labels[enc.code[p].label] = enc.starts[p]

\* The integers the two operands of a comparison are drawn from at run time.
IntOperands == {-1, 0, 1, 2}

\* The labels marked or branched to in the instructions emitted before
\* position p of low.instructions.
LabelsEmittedBefore(p) ==
    { low.instructions[i].label :
         i \in { j \in 1..p : low.instructions[j].op \in BranchOps \cup {"Label"} } }

\* C22: the instructions a lowered Cmpeq (Cmpne) emitted are a conditional
\* branch to a label F, Bipush 1, Goto E, the marker of F, Bipush 0, the
\* marker of E, with F and E two different labels not used in the
\* instructions emitted before; and run on two integers a and b they leave
\* exactly the value 1 when a = b (a # b) and exactly the value 0 otherwise.
C22_CmpIdiomValue ==
    \A k \in Lowered :
       low.code[k].op \in {"Cmpeq", "Cmpne"} =>
          LET frag == EmittedAt(k)
              F == frag[1].label
              E == frag[3].label
          IN  /\ Len(frag) = 6
              /\ [i \in 1..6 |-> frag[i].op] =
                    << IF low.code[k].op = "Cmpeq" THEN "IfIcmpne" ELSE "IfIcmpeq",
                       "Bipush", "Goto", "Label", "Bipush", "Label" >>
              /\ frag[2].arg = 1 /\ frag[5].arg = 0
              /\ frag[4].label = F /\ frag[6].label = E
              /\ F # E
              /\ {F, E} \cap LabelsEmittedBefore(low.trace[k].from) = {}
              /\ \A a \in IntOperands, b \in IntOperands :
                    RunIdiom(frag, 1, <<a, b>>) =
                       << IF (a = b) <=> (low.code[k].op = "Cmpeq") THEN 1 ELSE 0 >>

\* A Cmpeq and a Cmpne have been lowered behind an If, whose label the
\* generator issued before theirs.
C22_Witness ==
    /\ low.phase = "done"
    /\ \E j \in Lowered : low.code[j].op = "Cmpeq"
    /\ \E k \in Lowered : low.code[k].op = "Cmpne"
    /\ \E i \in Lowered : low.code[i].op = "Ifeq"

\* compile() has returned or the file is being written: pipe.instructions
\* holds the lowered method body.
LoweredBody == pipe.pc \in {"encode", "create", "write", "end"}
                  /\ pipe.panic_in \notin {"compile", "lower"}

\* The labels the markers and branches of pipe.instructions carry.
LabelsOfBody ==
    { pipe.instructions[i].label :
         i \in { j \in 1..Len(pipe.instructions) :
                    pipe.instructions[j].op \in BranchOps \cup {"Label"} } }

\* C23: get_new_label returns the counter and leaves it greater; the labels
\* of the code CodeCompiler produced are those below the counter it handed
\* on, the labels lowering added are those from that counter up to the final
\* one, and every one of these labels has exactly one Label marker in the
\* lowered method body.
C23_LabelsUnique ==
    LoweredBody =>
       LET issued == CompiledUpTo(Len(pipe.program)).label_generator
       IN  /\ \A g \in 0..pipe.label_generator :
                 GetNewLabel(g).label = g /\ GetNewLabel(g).next > g
           /\ issued <= pipe.label_generator
           /\ LabelsIn(pipe.code) = FirstLabel..(issued - 1)
           /\ LabelsOfBody = FirstLabel..(pipe.label_generator - 1)
           /\ \A l \in LabelsOfBody : Cardinality(InsPositions("Label", l)) = 1

\* A method body with a label of an If and the two labels of its guard's
\* comparison has been lowered.
C23_Witness ==
    /\ LoweredBody
    /\ pipe.program = IfScenario
    /\ pipe.label_generator = 3

\* The operator pseudo-instruction the claim names for an operator.
OperatorOp(operator) ==
    CASE operator = "Plus" -> "Add"
      [] operator = "Equality" -> "Cmpeq"
      [] operator = "Inequality" -> "Cmpne"

\* The code of the terms from the i-th on, each but the first followed by
\* the operator, when cc is the compiler state before the i-th term.
RECURSIVE FoldedTerms(_, _, _, _)
FoldedTerms(operator, terms, i, cc) ==
    IF i > Len(terms) THEN <<>>
    ELSE LET after == CompileExpression(terms[i], cc)
             own == Appended(terms[i], cc)
             op == IF i = 1 THEN <<>> ELSE <<Pseudo(OperatorOp(operator))>>
         IN  own \o op \o FoldedTerms(operator, terms, i + 1,
                                      [after EXCEPT !.code = after.code \o op])

\* The operator pseudo-instructions in the code of the terms themselves.
RECURSIVE OperatorsInTerms(_, _, _, _)
OperatorsInTerms(operator, terms, i, cc) ==
    IF i > Len(terms) THEN 0
    ELSE LET after == CompileExpression(terms[i], cc)
         IN  Cardinality(PseudoPositions(Appended(terms[i], cc), OperatorOp(operator)))
             + OperatorsInTerms(operator, terms, i + 1, after)

\* C24: the code an Operation statement with terms t1..tn appended is t1's
\* code and then, for i = 2..n in order, ti's code followed by the operator
\* pseudo-instruction (Add for +, Cmpeq for ==, Cmpne for !=); the node adds
\* exactly n - 1 operator instructions to those of its terms.
C24_OperationFold ==
    Compiled =>
       \A k \in 1..Len(pipe.program) :
          (pipe.program[k].kind = "Operation" /\ Len(pipe.program[k].kids) >= 1) =>
             LET e == pipe.program[k]
                 b == CompiledUpTo(k - 1)
             IN  /\ NodeCode(k) = FoldedTerms(e.name, e.kids, 1, b)
                 /\ Cardinality(PseudoPositions(NodeCode(k), OperatorOp(e.name)))
                       = OperatorsInTerms(e.name, e.kids, 1, b) + Len(e.kids) - 1

\* An operation of three terms and one of a single term have been compiled.
C24_Witness ==
    /\ Compiled
    /\ \E k \in 1..Len(pipe.program) :
          pipe.program[k].kind = "Operation" /\ Len(pipe.program[k].kids) = 3
    /\ \E k \in 1..Len(pipe.program) :
          pipe.program[k].kind = "Operation" /\ Len(pipe.program[k].kids) = 1

\* The binding of name in the variable stack the iteration at position k
\* found: <<slot, type>>.
BindingAt(k, name) == low.trace[k].slots.indices[name]

\* C25: a Load(name) that lowering completes found name bound, pushed the
\* binding's type on the operand-type stack and emitted one instruction on
\* the binding's slot, Iload for Boolean and Int and Aload for Reference;
\* a Load(name) at which lowering stopped found name unbound and emitted
\* nothing.
C25_LoadOfBinding ==
    low.phase \in {"done", "panicked"} =>
        /\ \A k \in Lowered :
              low.code[k].op = "Load" =>
                 LET name == low.code[k].var
                 IN  /\ name \in DOMAIN low.trace[k].slots.indices
                     /\ low.trace[k].after =
                           Append(low.trace[k].before, BindingAt(k, name)[2])
                     /\ low.trace[k].to = low.trace[k].from + 1
                     /\ SlotAt(k) = BindingAt(k, name)[1]
                     /\ BindingAt(k, name)[2] \in {"Boolean", "Int", "Reference"}
                     /\ low.instructions[low.trace[k].to].op =
                           IF BindingAt(k, name)[2] = "Reference" THEN "Aload" ELSE "Iload"
        /\ (low.phase = "panicked" /\ low.code[PanicAt].op = "Load") =>
              /\ low.code[PanicAt].var \notin DOMAIN low.variable_stack.indices
              /\ Len(low.instructions) =
                    (IF low.trace = <<>> THEN 0 ELSE low.trace[Len(low.trace)].to)

\* Lowering has stopped at a Load of a name that was declared and dropped,
\* with instructions emitted before it.
C25_Witness ==
    /\ low.phase = "panicked"
    /\ low.code[PanicAt].op = "Load"
    /\ Len(low.instructions) > 0
    /\ \E k \in Lowered : low.code[k].op = "Drop" /\ low.code[k].var = low.code[PanicAt].var

\* What one instruction adds to the depth of the runtime operand stack
\* (println takes its receiver and one argument and returns nothing).
StackEffect(ins) ==
    CASE ins.op \in {"Ldc", "Bipush", "Iload", "Aload", "Getstatic"} -> 1
      [] ins.op \in {"Istore", "Astore", "Iadd", "Ifeq", "Ifne"} -> -1
      [] ins.op \in {"IfIcmpeq", "IfIcmpne", "Invokevirtual"} -> -2
      [] OTHER -> 0

RECURSIVE SumEffects(_)
SumEffects(frag) ==
    IF frag = <<>> THEN 0 ELSE StackEffect(Head(frag)) + SumEffects(Tail(frag))

\* What the instructions emitted at position k add to the runtime depth: a
\* comparison takes its two operands and leaves one value on either path.
StepEffect(k) ==
    IF low.code[k].op \in {"Cmpeq", "Cmpne"} THEN -1 ELSE SumEffects(EmittedAt(k))

RECURSIVE RuntimeDepth(_)
RuntimeDepth(k) == IF k = 0 THEN 0 ELSE RuntimeDepth(k - 1) + StepEffect(k)

\* The pseudo-instructions are of the kinds CodeCompiler pushes.
FromCodeCompiler ==
    \A i \in 1..Len(low.code) :
       /\ low.code[i].op # "Drop"
       /\ low.code[i].op = "Push" => low.code[i].literal \in {"Int", "String"}

\* C26: after each lowered pseudo-instruction of a stream CodeCompiler
\* produced, the operand-type stack is as deep as the runtime operand stack
\* after the instructions emitted so far.
C26_DepthMirrorsRuntime ==
    FromCodeCompiler =>
       \A k \in Lowered : Len(low.trace[k].after) = RuntimeDepth(k)

\* The positions before p of low.instructions that store to the slot the
\* instruction at p uses.
StoresBefore(p) ==
    { q \in 1..(p - 1) : /\ low.instructions[q].op \in {"Istore", "Astore"}
                         /\ low.instructions[q].arg = low.instructions[p].arg }

\* The instruction reads or writes a reference, not an integer.
OfReference(ins) == ins.op \in {"Aload", "Astore"}

\* C27: in a method lowered to the end, every Iload or Aload is of the same
\* category, integer or reference, as the last Istore or Astore emitted
\* before it for the same slot.
C27_LoadMatchesStore ==
    low.phase = "done" =>
       \A p \in PositionsOf("Iload") \cup PositionsOf("Aload") :
          StoresBefore(p) # {} =>
             LET q == CHOOSE s \in StoresBefore(p) : \A t \in StoresBefore(p) : t <= s
             IN  OfReference(low.instructions[p]) = OfReference(low.instructions[q])

\* Index i is the index of a pool entry of one of the kinds.
IndexOf(i, kinds) ==
    /\ i \in 1..Cardinality(DOMAIN pool)
    /\ EntryAt(i).tag \in kinds

\* The pool index in the bytes of the instruction at position p of
\* pipe.instructions: one byte behind the opcode of Ldc, two behind the
\* others.
IndexInBytes(p) ==
    IF pipe.instructions[p].op = "Ldc"
    THEN pipe.bytecode[pipe.starts[p] + 2]
    ELSE pipe.bytecode[pipe.starts[p] + 2] * 256 + pipe.bytecode[pipe.starts[p] + 3]

\* C28: once compile() has returned, and so while the pool is written,
\* every pool index in the bytes of an Ldc, Getstatic or Invokevirtual and
\* every index of the class and method records is between 1 and the length
\* of the pool, below the pool count that is written, and is the index of
\* an entry of the kind the place asks for.
C28_IndicesInPool ==
    Encoded =>
       /\ \A p \in 1..Len(pipe.instructions) :
             /\ pipe.instructions[p].op = "Ldc" =>
                   IndexOf(IndexInBytes(p), {"Integer", "String"})
             /\ pipe.instructions[p].op = "Getstatic" =>
                   IndexOf(IndexInBytes(p), {"FieldRef"})
             /\ pipe.instructions[p].op = "Invokevirtual" =>
                   IndexOf(IndexInBytes(p), {"MethodRef"})
       /\ IndexOf(pipe.class_file.this_class, {"ClassRef"})
       /\ IndexOf(pipe.class_file.super_class, {"ClassRef"})
       /\ \A m \in 1..Len(pipe.class_file.methods) :
             LET method == pipe.class_file.methods[m]
             IN  /\ IndexOf(method.name_index, {"Utf8"})
                 /\ IndexOf(method.descriptor_index, {"Utf8"})
                 /\ \A a \in 1..Len(method.attributes) :
                       IndexOf(method.attributes[a].name_index, {"Utf8"})
       /\ \A k \in 1..Len(pipe.written) :
             pipe.written[k].field = "constant_pool_count" =>
                pipe.written[k].bytes = U16Bytes(Cardinality(DOMAIN pool) + 1)

\* The pool of a class whose method loads a string and an integer and calls
\* println has been written.
C28_Witness ==
    /\ Encoded
    /\ \E k \in 1..Len(pipe.written) : pipe.written[k].field = "constant_pool_entry"
    /\ \E p \in 1..Len(pipe.instructions) :
          pipe.instructions[p].op = "Ldc" /\ EntryAt(pipe.instructions[p].arg).tag = "String"
    /\ \E p \in 1..Len(pipe.instructions) :
          pipe.instructions[p].op = "Ldc" /\ EntryAt(pipe.instructions[p].arg).tag = "Integer"
    /\ \E p \in 1..Len(pipe.instructions) : pipe.instructions[p].op = "Invokevirtual"

\* The max_locals in the bytes of a Code attribute: the second u16 of its
\* info.
MaxLocalsWritten(attribute) == attribute.info[3] * 256 + attribute.info[4]

\* C29: once compile() has returned, the max_locals in the Code attribute
\* of the method is greater than the slot of every Istore, Astore, Iload and
\* Aload of its body.
C29_MaxLocalsCoversSlots ==
    Encoded =>
       \A p \in 1..Len(pipe.instructions) :
          pipe.instructions[p].op \in {"Istore", "Astore", "Iload", "Aload"} =>
             MaxLocalsWritten(pipe.class_file.methods[1].attributes[1])
                > pipe.instructions[p].arg

\* The variable stack the iteration at position k left.
SlotsAfter(k) ==
    IF k < Len(low.trace) THEN low.trace[k + 1].slots ELSE low.variable_stack

\* The positions before k that declare name.
DeclarationsBefore(k, name) ==
    { d \in 1..(k - 1) : low.code[d].op = "Store" /\ low.code[d].create
                          /\ low.code[d].var = name }

\* C30: a lowered Drop(name) emits nothing, leaves the operand-type stack
\* and the other bindings as they were, and leaves name without binding,
\* however many declarations of name came before it; and a Load(name) or
\* Store(name, false) that lowering completes found name bound, so the one
\* that follows such a Drop is never completed.
C30_DropUnbinds ==
    low.phase \in {"done", "panicked"} =>
        /\ \A k \in Lowered :
              low.code[k].op = "Drop" =>
                 LET name == low.code[k].var
                     found == low.trace[k].slots
                     left == SlotsAfter(k)
                 IN  /\ low.trace[k].to = low.trace[k].from
                     /\ low.trace[k].after = low.trace[k].before
                     /\ name \notin DOMAIN left.indices
                     /\ DOMAIN left.indices = (DOMAIN found.indices) \ {name}
                     /\ \A n \in DOMAIN left.indices : left.indices[n] = found.indices[n]
                     /\ left.next_index = found.next_index
        /\ \A k \in Lowered :
              (low.code[k].op = "Load" \/ (low.code[k].op = "Store" /\ ~low.code[k].create))
                 => low.code[k].var \in DOMAIN low.trace[k].slots.indices
        /\ \A k \in 1..Len(low.code) :
              (/\ k - 1 \in Lowered
               /\ low.code[k - 1].op = "Drop"
               /\ low.code[k].var = low.code[k - 1].var
               /\ low.code[k].op \in {"Load", "Store"}
               /\ ~low.code[k].create)
                 => (low.phase = "panicked" /\ PanicAt = k)

\* Lowering has stopped at a Load or a non-declaring Store of a name that
\* was declared twice and then dropped.
C30_Witness ==
    /\ low.phase = "panicked"
    /\ low.code[PanicAt].op \in {"Load", "Store"}
    /\ ~low.code[PanicAt].create
    /\ \E k \in Lowered :
          /\ low.code[k].op = "Drop"
          /\ low.code[k].var = low.code[PanicAt].var
          /\ Cardinality(DeclarationsBefore(k, low.code[k].var)) = 2
          /\ \A i \in (k + 1)..PanicAt : low.code[i].op # "Store" \/ ~low.code[i].create

====
